---- MODULE Spec2Model ----
(***************************************************************************)
(* Model of the recording coordinator of VoiceMemo:                        *)
(*   voice_input/state_machine.py  StateMachine.handle (pure transition)   *)
(*   voice_input/coordinator.py    RecordingCoordinator (event queue,      *)
(*                                 effect executor, bring-up jobs, timers) *)
(* Session ids (uuid4 strings) are the naturals 1,2,..; 0 stands for None. *)
(* Texts are sequences of fragments; "ni", "nihao", "nihao." stand for the *)
(* transcripts of the S1 scenario.  Durations are in milliseconds.         *)
(***************************************************************************)
EXTENDS Naturals, Sequences, FiniteSets

VARIABLES ctx, queue, rt, minted, hist, s1pc

vars == <<ctx, queue, rt, minted, hist, s1pc>>

\* ------------------------------------------------------------------ bounds
MaxSessions == 2
MaxQueue == 1
MaxText == 1
MaxBacklog == 1
MaxDrops == 2
MaxSendErrors == 2

\* ------------------------------------------------------------- vocabulary
None == 0
NoMsg == "none"
NoDetail == "none"

\* config.SILENCE_THRESHOLD (RMS) and config.SILENCE_TIMEOUT_S (seconds)
SILENCE_THRESHOLD == 500

SILENCE_TIMEOUT_S == 60

\* the PCM blocks the recorder may deliver: silence, a block at the threshold, a block
\* just above it
PcmBlocks == { << 0 >>, << SILENCE_THRESHOLD >>, << SILENCE_THRESHOLD + 1 >> }

\* what the recognition server may report: a partial hypothesis, a definite sentence,
\* an empty definite result
ServerResults ==
    { [text |-> << "ni" >>, is_definite |-> FALSE],
      [text |-> << "nihao." >>, is_definite |-> TRUE],
      [text |-> << >>, is_definite |-> TRUE] }

Event(t, s, d) == [type |-> t, session_id |-> s, detail |-> d]

Effect(t, m, ms, txt) == [type |-> t, msg |-> m, ms |-> ms, text |-> txt]

Eff(t) == Effect(t, NoMsg, 0, <<>>)

EffMsg(t, m) == Effect(t, m, 0, <<>>)

EffMs(t, ms) == Effect(t, NoMsg, ms, <<>>)

ArmingState == [perm_ok |-> FALSE, audio_ready |-> FALSE,
                transport_ready |-> FALSE, started |-> FALSE]

StateContext == [state |-> "IDLE", session_id |-> None, arming |-> ArmingState,
                 error_message |-> NoMsg, current_text |-> <<>>,
                 committed_text |-> <<>>]

\* a latch that forgets to look at perm_ok
check_ready_skips_perm(a) ==
    IF a.started THEN [ready |-> FALSE, arming |-> a]
    ELSE IF a.audio_ready /\ a.transport_ready
         THEN [ready |-> TRUE, arming |-> [a EXCEPT !.started = TRUE]]
         ELSE [ready |-> FALSE, arming |-> a]

\* ArmingState.check_ready: the latch; returns the answer and the mutated substate

check_ready(a) ==
    IF a.started THEN [ready |-> FALSE, arming |-> a]
    ELSE IF a.perm_ok /\ a.audio_ready /\ a.transport_ready
         THEN [ready |-> TRUE, arming |-> [a EXCEPT !.started = TRUE]]
         ELSE [ready |-> FALSE, arming |-> a]

\* a new_session that mints the token and keeps the transcript
new_session_keeps_text(c, u) ==
    [c EXCEPT !.session_id = u, !.arming = ArmingState, !.error_message = NoMsg]

\* StateContext.new_session with uuid4() = u
new_session(c, u) ==
    [c EXCEPT !.session_id = u, !.arming = ArmingState, !.current_text = <<>>,
              !.committed_text = <<>>, !.error_message = NoMsg]

Out(c, effs) == [ctx |-> c, effects |-> effs]

\* `x or default` on an optional detail
OrDefault(d, default) == IF d = NoDetail THEN default ELSE d

StartEffects(uimsg) ==
    << EffMsg("UPDATE_UI", uimsg), EffMs("ARM_ARMING_TIMEOUT", 5000),
       Eff("CHECK_PERMISSIONS"), Eff("INIT_AUDIO"), Eff("CONNECT_TRANSPORT") >>

PromoteEffects ==
    << Eff("CANCEL_ARMING_TIMEOUT"), Eff("START_CAPTURE"), EffMsg("UPDATE_UI", "speak") >>

\* no session filter at all
IsStale_disabled(c, e) == FALSE

\* the session filter at the head of handle
IsStale(c, e) ==
    e.session_id # None /\ c.session_id # None /\ e.session_id # c.session_id

\* an Idle branch that also reports a transport error
HandleIdle_shows_transport_error(c, e, u) ==
    CASE e.type = "U_START" ->
            Out([new_session(c, u) EXCEPT !.state = "ARMING"], StartEffects("initializing"))
      [] e.type = "E_MIC_PERMISSION_DENIED" ->
            Out(c, << EffMsg("SHOW_ERROR", "grant microphone permission") >>)
      [] e.type = "E_ACCESSIBILITY_DENIED" ->
            Out(c, << EffMsg("SHOW_ERROR", "grant accessibility permission") >>)
      [] e.type = "E_TRANSPORT_ERROR" ->
            Out(c, << EffMsg("SHOW_ERROR", OrDefault(e.detail, "network error")) >>)
      [] OTHER -> Out(c, << >>)

HandleIdle(c, e, u) ==
    CASE e.type = "U_START" ->
            Out([new_session(c, u) EXCEPT !.state = "ARMING"], StartEffects("initializing"))
      [] e.type = "E_MIC_PERMISSION_DENIED" ->
            Out(c, << EffMsg("SHOW_ERROR", "grant microphone permission") >>)
      [] e.type = "E_ACCESSIBILITY_DENIED" ->
            Out(c, << EffMsg("SHOW_ERROR", "grant accessibility permission") >>)
      [] OTHER -> Out(c, << >>)

\* a promotion that leaves the arming timer running
Readiness_keeps_timer(c, flag) ==
    LET a1 == [c.arming EXCEPT ![flag] = TRUE]
        r == check_ready(a1)
    IN IF r.ready
       THEN Out([c EXCEPT !.arming = r.arming, !.state = "RECORDING"],
                << Eff("START_CAPTURE"), EffMsg("UPDATE_UI", "speak") >>)
       ELSE Out([c EXCEPT !.arming = r.arming], << >>)

\* one of the three readiness branches: set the flag, then check_ready
Readiness(c, flag) ==
    LET a1 == [c.arming EXCEPT ![flag] = TRUE]
        r == check_ready(a1)
    IN IF r.ready
       THEN Out([c EXCEPT !.arming = r.arming, !.state = "RECORDING"], PromoteEffects)
       ELSE Out([c EXCEPT !.arming = r.arming], << >>)

\* a return to Idle that keeps the session token
ToIdle_keeps_session(c) == [c EXCEPT !.state = "IDLE"]

\* ctx.state = State.IDLE; ctx.session_id = None
ToIdle(c) == [c EXCEPT !.state = "IDLE", !.session_id = None]

HandleArming(c, e, u) ==
    CASE e.type = "U_STOP" ->
            Out(ToIdle(c), << Eff("RELEASE_RESOURCES"), EffMsg("UPDATE_UI", "cancelled") >>)
      [] e.type = "S_MIC_PERMISSION_OK" -> Readiness(c, "perm_ok")
      [] e.type = "S_AUDIO_READY" -> Readiness(c, "audio_ready")
      [] e.type = "S_TRANSPORT_CONNECTED" -> Readiness(c, "transport_ready")
      [] e.type = "E_ARMING_TIMEOUT" ->
            Out(ToIdle(c), << Eff("RELEASE_RESOURCES"), EffMsg("SHOW_ERROR", "init timeout") >>)
      [] e.type = "E_MIC_PERMISSION_DENIED" ->
            Out([c EXCEPT !.state = "ERROR", !.error_message = "microphone permission denied"],
                << Eff("CANCEL_ARMING_TIMEOUT"), Eff("RELEASE_RESOURCES"),
                   EffMsg("SHOW_ERROR", "grant microphone permission"),
                   EffMs("ARM_ERROR_RECOVER", 3000) >>)
      [] e.type = "E_AUDIO_INIT_FAILED" ->
            LET m == OrDefault(e.detail, "audio init failed")
            IN Out([c EXCEPT !.state = "ERROR", !.error_message = m],
                   << Eff("CANCEL_ARMING_TIMEOUT"), Eff("RELEASE_RESOURCES"),
                      EffMsg("SHOW_ERROR", m), EffMs("ARM_ERROR_RECOVER", 3000) >>)
      [] e.type = "E_TRANSPORT_ERROR" ->
            Out(ToIdle(c), << Eff("RELEASE_RESOURCES"),
                              EffMsg("SHOW_ERROR", OrDefault(e.detail, "connect failed")) >>)
      [] e.type = "E_NETWORK_UNAVAILABLE" ->
            Out(ToIdle(c), << Eff("RELEASE_RESOURCES"),
                              EffMsg("SHOW_ERROR", "network unavailable") >>)
      [] OTHER -> Out(c, << >>)

\* a Recording branch that arms no flush timer when the transport fails
HandleRecording_no_flush_timer(c, e, u) ==
    CASE e.type = "U_STOP" ->
            Out([c EXCEPT !.state = "STOPPING"],
                << Eff("STOP_CAPTURE"), Eff("FLUSH_QUEUE"), EffMs("ARM_FLUSH_TIMEOUT", 1000),
                   EffMsg("UPDATE_UI", "processing") >>)
      [] e.type = "S_DEFAULT_INPUT_CHANGED" ->
            Out([new_session(c, u) EXCEPT !.state = "ARMING"],
                << Eff("STOP_CAPTURE"), Eff("CLOSE_TRANSPORT"),
                   EffMsg("UPDATE_UI", "device changed"),
                   Eff("INIT_AUDIO"), Eff("CONNECT_TRANSPORT") >>)
      [] e.type = "S_SYSTEM_WILL_SLEEP" ->
            Out([c EXCEPT !.state = "STOPPING"],
                << Eff("STOP_CAPTURE"), Eff("FLUSH_QUEUE"), EffMs("ARM_FLUSH_TIMEOUT", 500),
                   EffMsg("UPDATE_UI", "sleeping") >>)
      [] e.type = "E_TRANSPORT_ERROR" ->
            Out([c EXCEPT !.state = "STOPPING"],
                << Eff("STOP_CAPTURE"), Eff("FLUSH_QUEUE"),
                   EffMsg("SHOW_ERROR", OrDefault(e.detail, "connection lost")) >>)
      [] e.type = "E_AUDIO_DEVICE_GONE" ->
            Out([c EXCEPT !.state = "STOPPING"],
                << Eff("FLUSH_QUEUE"), EffMs("ARM_FLUSH_TIMEOUT", 500),
                   EffMsg("SHOW_ERROR", "audio device gone") >>)
      [] OTHER -> Out(c, << >>)

\* a Recording branch that sends a lost device to Error
HandleRecording_device_gone_to_error(c, e, u) ==
    CASE e.type = "U_STOP" ->
            Out([c EXCEPT !.state = "STOPPING"],
                << Eff("STOP_CAPTURE"), Eff("FLUSH_QUEUE"), EffMs("ARM_FLUSH_TIMEOUT", 1000),
                   EffMsg("UPDATE_UI", "processing") >>)
      [] e.type = "S_DEFAULT_INPUT_CHANGED" ->
            Out([new_session(c, u) EXCEPT !.state = "ARMING"],
                << Eff("STOP_CAPTURE"), Eff("CLOSE_TRANSPORT"),
                   EffMsg("UPDATE_UI", "device changed"),
                   Eff("INIT_AUDIO"), Eff("CONNECT_TRANSPORT") >>)
      [] e.type = "S_SYSTEM_WILL_SLEEP" ->
            Out([c EXCEPT !.state = "STOPPING"],
                << Eff("STOP_CAPTURE"), Eff("FLUSH_QUEUE"), EffMs("ARM_FLUSH_TIMEOUT", 500),
                   EffMsg("UPDATE_UI", "sleeping") >>)
      [] e.type = "E_TRANSPORT_ERROR" ->
            Out([c EXCEPT !.state = "STOPPING"],
                << Eff("STOP_CAPTURE"), Eff("FLUSH_QUEUE"), EffMs("ARM_FLUSH_TIMEOUT", 500),
                   EffMsg("SHOW_ERROR", OrDefault(e.detail, "connection lost")) >>)
      [] e.type = "E_AUDIO_DEVICE_GONE" ->
            Out([c EXCEPT !.state = "ERROR", !.error_message = "audio device gone"],
                << Eff("RELEASE_RESOURCES"), EffMsg("SHOW_ERROR", "audio device gone"),
                   EffMs("ARM_ERROR_RECOVER", 3000) >>)
      [] OTHER -> Out(c, << >>)

HandleRecording(c, e, u) ==
    CASE e.type = "U_STOP" ->
            Out([c EXCEPT !.state = "STOPPING"],
                << Eff("STOP_CAPTURE"), Eff("FLUSH_QUEUE"), EffMs("ARM_FLUSH_TIMEOUT", 1000),
                   EffMsg("UPDATE_UI", "processing") >>)
      [] e.type = "S_DEFAULT_INPUT_CHANGED" ->
            Out([new_session(c, u) EXCEPT !.state = "ARMING"],
                << Eff("STOP_CAPTURE"), Eff("CLOSE_TRANSPORT"),
                   EffMsg("UPDATE_UI", "device changed"),
                   Eff("INIT_AUDIO"), Eff("CONNECT_TRANSPORT") >>)
      [] e.type = "S_SYSTEM_WILL_SLEEP" ->
            Out([c EXCEPT !.state = "STOPPING"],
                << Eff("STOP_CAPTURE"), Eff("FLUSH_QUEUE"), EffMs("ARM_FLUSH_TIMEOUT", 500),
                   EffMsg("UPDATE_UI", "sleeping") >>)
      [] e.type = "E_TRANSPORT_ERROR" ->
            Out([c EXCEPT !.state = "STOPPING"],
                << Eff("STOP_CAPTURE"), Eff("FLUSH_QUEUE"), EffMs("ARM_FLUSH_TIMEOUT", 500),
                   EffMsg("SHOW_ERROR", OrDefault(e.detail, "connection lost")) >>)
      [] e.type = "E_AUDIO_DEVICE_GONE" ->
            Out([c EXCEPT !.state = "STOPPING"],
                << Eff("FLUSH_QUEUE"), EffMs("ARM_FLUSH_TIMEOUT", 500),
                   EffMsg("SHOW_ERROR", "audio device gone") >>)
      [] OTHER -> Out(c, << >>)

\* a Stopping branch that releases the resources before it closes the transport
HandleStopping_releases_first(c, e, u) ==
    IF e.type \in {"S_QUEUE_FLUSHED", "S_FLUSH_TIMEOUT"}
    THEN Out(ToIdle(c),
             << Eff("CANCEL_FLUSH_TIMEOUT"), Eff("RELEASE_RESOURCES"), Eff("CLOSE_TRANSPORT"),
                Effect("COMMIT_TEXT", NoMsg, 0, c.committed_text \o c.current_text),
                EffMsg("UPDATE_UI", NoMsg) >>)
    ELSE Out(c, << >>)

\* a Stopping branch that stops the capture again on a repeated U_STOP
HandleStopping_stops_again(c, e, u) ==
    CASE e.type \in {"S_QUEUE_FLUSHED", "S_FLUSH_TIMEOUT"} ->
            Out(ToIdle(c),
                << Eff("CANCEL_FLUSH_TIMEOUT"), Eff("CLOSE_TRANSPORT"), Eff("RELEASE_RESOURCES"),
                   Effect("COMMIT_TEXT", NoMsg, 0, c.committed_text \o c.current_text),
                   EffMsg("UPDATE_UI", NoMsg) >>)
      [] e.type = "U_STOP" -> Out(c, << Eff("STOP_CAPTURE") >>)
      [] OTHER -> Out(c, << >>)

\* a Stopping branch that commits but forgets to leave Stopping
HandleStopping_stays(c, e, u) ==
    IF e.type \in {"S_QUEUE_FLUSHED", "S_FLUSH_TIMEOUT"}
    THEN Out(c,
             << Eff("CANCEL_FLUSH_TIMEOUT"), Eff("CLOSE_TRANSPORT"), Eff("RELEASE_RESOURCES"),
                Effect("COMMIT_TEXT", NoMsg, 0, c.committed_text \o c.current_text),
                EffMsg("UPDATE_UI", NoMsg) >>)
    ELSE Out(c, << >>)

HandleStopping(c, e, u) ==
    IF e.type \in {"S_QUEUE_FLUSHED", "S_FLUSH_TIMEOUT"}
    THEN Out(ToIdle(c),
             << Eff("CANCEL_FLUSH_TIMEOUT"), Eff("CLOSE_TRANSPORT"), Eff("RELEASE_RESOURCES"),
                Effect("COMMIT_TEXT", NoMsg, 0, c.committed_text \o c.current_text),
                EffMsg("UPDATE_UI", NoMsg) >>)
    ELSE Out(c, << >>)

\* an Error branch that leaves Error without releasing
HandleError_no_release(c, e, u) ==
    CASE e.type = "U_START" ->
            Out([new_session(c, u) EXCEPT !.state = "ARMING"],
                << Eff("CANCEL_ERROR_RECOVER") >> \o StartEffects("retrying"))
      [] e.type \in {"S_AUTO_RECOVER", "U_STOP"} ->
            Out([ToIdle(c) EXCEPT !.error_message = NoMsg], << EffMsg("UPDATE_UI", NoMsg) >>)
      [] e.type = "S_SYSTEM_DID_WAKE" ->
            Out([ToIdle(c) EXCEPT !.error_message = NoMsg],
                << Eff("CANCEL_ERROR_RECOVER"), EffMsg("UPDATE_UI", NoMsg) >>)
      [] OTHER -> Out(c, << >>)

\* an Error branch that has no automatic recovery
HandleError_ignores_auto_recover(c, e, u) ==
    CASE e.type = "U_START" ->
            Out([new_session(c, u) EXCEPT !.state = "ARMING"],
                << Eff("CANCEL_ERROR_RECOVER"), Eff("RELEASE_RESOURCES") >>
                \o StartEffects("retrying"))
      [] e.type = "U_STOP" ->
            Out([ToIdle(c) EXCEPT !.error_message = NoMsg],
                << Eff("RELEASE_RESOURCES"), EffMsg("UPDATE_UI", NoMsg) >>)
      [] e.type = "S_SYSTEM_DID_WAKE" ->
            Out([ToIdle(c) EXCEPT !.error_message = NoMsg],
                << Eff("CANCEL_ERROR_RECOVER"), Eff("RELEASE_RESOURCES"),
                   EffMsg("UPDATE_UI", NoMsg) >>)
      [] OTHER -> Out(c, << >>)

HandleError(c, e, u) ==
    CASE e.type = "U_START" ->
            Out([new_session(c, u) EXCEPT !.state = "ARMING"],
                << Eff("CANCEL_ERROR_RECOVER"), Eff("RELEASE_RESOURCES") >>
                \o StartEffects("retrying"))
      [] e.type \in {"S_AUTO_RECOVER", "U_STOP"} ->
            Out([ToIdle(c) EXCEPT !.error_message = NoMsg],
                << Eff("RELEASE_RESOURCES"), EffMsg("UPDATE_UI", NoMsg) >>)
      [] e.type = "S_SYSTEM_DID_WAKE" ->
            Out([ToIdle(c) EXCEPT !.error_message = NoMsg],
                << Eff("CANCEL_ERROR_RECOVER"), Eff("RELEASE_RESOURCES"),
                   EffMsg("UPDATE_UI", NoMsg) >>)
      [] OTHER -> Out(c, << >>)

\* StateMachine.handle; u is the value uuid4() returns if new_session is called
handle(c, e, u) ==
    IF IsStale(c, e) THEN Out(c, << >>)
    ELSE CASE c.state = "IDLE" -> HandleIdle(c, e, u)
           [] c.state = "ARMING" -> HandleArming(c, e, u)
           [] c.state = "RECORDING" -> HandleRecording(c, e, u)
           [] c.state = "STOPPING" -> HandleStopping(c, e, u)
           [] c.state = "ERROR" -> HandleError(c, e, u)

\* ---------------------------------------------------------- the audio queue
\* AudioQueue(max_duration_ms=2000, frame_ms=100) of the coordinator
max_duration_ms == 2000

frame_ms == 100

\* AudioQueue.__init__: max(max_duration_ms // frame_ms, 1)
max_frames ==
    IF max_duration_ms \div frame_ms > 1 THEN max_duration_ms \div frame_ms ELSE 1

\* the deque and the drop counter; _total_put and _total_get are written and never read
AudioQueueInit == [q |-> << >>, total_dropped |-> 0]

\* AudioFrame; data is the PCM block as a sequence of int16 samples
AudioFrame(s, data) == [session_id |-> s, data |-> data]

\* a put that refuses the new frame when the queue is full
put_drops_newest(a, data, s) ==
    IF Len(a.q) >= max_frames
    THEN [a EXCEPT !.total_dropped = @ + 1]
    ELSE [a EXCEPT !.q = Append(a.q, AudioFrame(s, data))]

\* AudioQueue.put: deque(maxlen) drops the leftmost frame when it is full
put(a, data, s) ==
    IF Len(a.q) >= max_frames
    THEN [a EXCEPT !.q = Append(Tail(a.q), AudioFrame(s, data)), !.total_dropped = @ + 1]
    ELSE [a EXCEPT !.q = Append(a.q, AudioFrame(s, data))]

\* a popleft loop that hands out every frame it meets
RECURSIVE get_batch_loop_unfiltered(_, _, _, _)
get_batch_loop_unfiltered(q, items, max_items, current_session) ==
    IF q = << >> \/ Len(items) >= max_items THEN [q |-> q, items |-> items]
    ELSE get_batch_loop_unfiltered(Tail(q), Append(items, Head(q)), max_items,
                                   current_session)

\* the popleft loop of get_batch
RECURSIVE get_batch_loop(_, _, _, _)
get_batch_loop(q, items, max_items, current_session) ==
    IF q = << >> \/ Len(items) >= max_items THEN [q |-> q, items |-> items]
    ELSE IF current_session # None /\ Head(q).session_id # current_session
         THEN get_batch_loop(Tail(q), items, max_items, current_session)
         ELSE get_batch_loop(Tail(q), Append(items, Head(q)), max_items, current_session)

\* AudioQueue.get_batch: the queue afterwards and the frames returned
get_batch(a, max_items, current_session) ==
    LET r == get_batch_loop(a.q, << >>, max_items, current_session)
    IN [queue |-> [a EXCEPT !.q = r.q], items |-> r.items]

\* the popleft loop of flush
RECURSIVE flush_loop(_, _, _)
flush_loop(q, items, current_session) ==
    IF q = << >> THEN [q |-> q, items |-> items]
    ELSE IF current_session # None /\ Head(q).session_id # current_session
         THEN flush_loop(Tail(q), items, current_session)
         ELSE flush_loop(Tail(q), Append(items, Head(q)), current_session)

\* AudioQueue.flush
flush(a, current_session) ==
    LET r == flush_loop(a.q, << >>, current_session)
    IN [queue |-> [a EXCEPT !.q = r.q], items |-> r.items]

\* AudioQueue.clear
clear(a) == [a EXCEPT !.q = << >>]

\* ------------------------------------------------------------ the runtime
\* RecordingCoordinator.__init__: adapter slots, timers, detached jobs.  recorder,
\* asr_client and audio_sender hold the session they were created for; open is the set
\* of sessions whose websocket is still connected; capturing tells whether the stream of
\* the recorder in the slot is open; last_voice_age is the number of whole seconds since
\* _last_voice_time
RuntimeInit ==
    [jobs |-> {}, recorder |-> None, asr_client |-> None, audio_sender |-> None,
     open |-> {}, flush_timer |-> FALSE, arming_timeout_timer |-> FALSE,
     error_recover_timer |-> FALSE, silence_check_timer |-> FALSE,
     silence_check_session |-> None, capturing |-> FALSE,
     audio_queue |-> AudioQueueInit, last_voice_age |-> 0]

Job(k, s) == [kind |-> k, session_id |-> s]

\* RecordingCoordinator._start_capture
start_capture(r, c) ==
    IF c.session_id = None THEN r
    ELSE [r EXCEPT !.audio_sender = c.session_id, !.silence_check_timer = TRUE,
                   !.silence_check_session = c.session_id, !.last_voice_age = 0]

\* RecordingCoordinator._stop_capture: cancel the silence check, recorder.stop()
stop_capture(r) ==
    [r EXCEPT !.silence_check_timer = FALSE, !.silence_check_session = None,
              !.capturing = FALSE]

\* a _close_transport that closes the connection and keeps the client in its slot
close_transport_keeps_slot(r) ==
    [r EXCEPT !.audio_sender = None, !.open = r.open \ {r.asr_client}]

\* RecordingCoordinator._close_transport
close_transport(r) ==
    [r EXCEPT !.audio_sender = None, !.asr_client = None, !.open = r.open \ {r.asr_client}]

\* the number of times _close_transport calls asr_client.close(): once if a client is
\* in the slot
close_calls(r) == IF r.asr_client # None THEN 1 ELSE 0

\* RecordingCoordinator._release_resources
release_resources(r) ==
    [close_transport(stop_capture(r)) EXCEPT !.recorder = None,
                                             !.audio_queue = clear(r.audio_queue)]

\* RecordingCoordinator._flush_queue: sender.stop(flush=True) drains the queue
flush_queue(r) ==
    IF r.audio_sender = None THEN r
    ELSE [r EXCEPT !.audio_sender = None,
                   !.audio_queue = flush(r.audio_queue, r.audio_sender).queue]

\* an _arm_flush_timeout that starts no timer
arm_flush_timeout_noop(r) == r

\* RecordingCoordinator._arm_flush_timeout
arm_flush_timeout(r) == [r EXCEPT !.flush_timer = TRUE]

\* RecordingCoordinator._execute_effect, c being the context after the step
execute_effect(r, eff, c) ==
    CASE eff.type = "CHECK_PERMISSIONS" -> [r EXCEPT !.jobs = r.jobs \cup {Job("check", c.session_id)}]
      [] eff.type = "INIT_AUDIO" -> [r EXCEPT !.jobs = r.jobs \cup {Job("init", c.session_id)}]
      [] eff.type = "CONNECT_TRANSPORT" -> [r EXCEPT !.jobs = r.jobs \cup {Job("connect", c.session_id)}]
      [] eff.type = "START_CAPTURE" -> start_capture(r, c)
      [] eff.type = "STOP_CAPTURE" -> stop_capture(r)
      [] eff.type = "CLOSE_TRANSPORT" -> close_transport(r)
      [] eff.type = "RELEASE_RESOURCES" -> release_resources(r)
      [] eff.type = "FLUSH_QUEUE" -> flush_queue(r)
      [] eff.type = "ARM_FLUSH_TIMEOUT" -> arm_flush_timeout(r)
      [] eff.type = "CANCEL_FLUSH_TIMEOUT" -> [r EXCEPT !.flush_timer = FALSE]
      [] eff.type = "ARM_ARMING_TIMEOUT" -> [r EXCEPT !.arming_timeout_timer = TRUE]
      [] eff.type = "CANCEL_ARMING_TIMEOUT" -> [r EXCEPT !.arming_timeout_timer = FALSE]
      [] eff.type = "ARM_ERROR_RECOVER" -> [r EXCEPT !.error_recover_timer = TRUE]
      [] eff.type = "CANCEL_ERROR_RECOVER" -> [r EXCEPT !.error_recover_timer = FALSE]
      [] OTHER -> r

\* the `for effect in effects` loop of _handle_event
RECURSIVE execute_effects(_, _, _)
execute_effects(r, effs, c) ==
    IF effs = << >> THEN r
    ELSE execute_effects(execute_effect(r, Head(effs), c), Tail(effs), c)

\* RecordingCoordinator.post_event: an event without session is stamped with the live one
post_event(q, e, c) ==
    Append(q, IF e.session_id = None THEN [e EXCEPT !.session_id = c.session_id] ELSE e)

RECURSIVE SumSq(_)
SumSq(data) == IF data = << >> THEN 0 ELSE Head(data) * Head(data) + SumSq(Tail(data))

\* rms > config.SILENCE_THRESHOLD for rms = sqrt(mean(samples ** 2)), without the root
Loud(data) == SumSq(data) > SILENCE_THRESHOLD * SILENCE_THRESHOLD * Len(data)

\* a probe that ends the silence check when it hears a silent block
on_audio_data_gives_up(r, c, data, session_id) ==
    IF c.session_id # session_id THEN r
    ELSE IF c.state \in {"ARMING", "RECORDING"}
         THEN LET r1 == [r EXCEPT !.audio_queue = put(r.audio_queue, data, session_id)]
              IN IF c.state = "RECORDING" /\ Len(data) >= 1 /\ Loud(data)
                 THEN [r1 EXCEPT !.last_voice_age = 0]
                 ELSE [r1 EXCEPT !.silence_check_timer = FALSE]
         ELSE r

\* RecordingCoordinator._on_audio_data: queue the block in Arming and Recording, refresh
\* _last_voice_time in Recording when the block is loud
on_audio_data(r, c, data, session_id) ==
    IF c.session_id # session_id THEN r
    ELSE IF c.state \in {"ARMING", "RECORDING"}
         THEN LET r1 == [r EXCEPT !.audio_queue = put(r.audio_queue, data, session_id)]
              IN IF c.state = "RECORDING" /\ Len(data) >= 1 /\ Loud(data)
                 THEN [r1 EXCEPT !.last_voice_age = 0]
                 ELSE r1
         ELSE r

\* a result handler that keeps the partial text when a definite sentence arrives
on_asr_result_keeps_partial(c, text, is_definite) ==
    IF is_definite
    THEN [c EXCEPT !.committed_text = c.committed_text \o text]
    ELSE [c EXCEPT !.current_text = text]

\* RecordingCoordinator._on_asr_result, the text bookkeeping under the lock
on_asr_result(c, text, is_definite) ==
    IF is_definite
    THEN [c EXCEPT !.committed_text = c.committed_text \o text, !.current_text = << >>]
    ELSE [c EXCEPT !.current_text = text]

\* ------------------------------------------------------------------ history
CountType(effs, t) == Cardinality({i \in DOMAIN effs : effs[i].type = t})

HasType(effs, t) == \E i \in DOMAIN effs : effs[i].type = t

NoEvent == Event("none", None, NoDetail)

\* the COMMIT_TEXT branch of _execute_effect over a list of effects: the texts passed to
\* callbacks.on_text_commit, which is called only `if data`
RECURSIVE on_text_commit(_)
on_text_commit(effs) ==
    IF effs = << >> THEN << >>
    ELSE (IF Head(effs).type = "COMMIT_TEXT" /\ Head(effs).text # << >>
          THEN << Head(effs).text >> ELSE << >>) \o on_text_commit(Tail(effs))

\* the last handled event with the context before it and its effects; of the path that
\* began with the last UserStart accepted in Idle: whether it is open or has returned to
\* Idle, its ReleaseResources count, its entries into Error and its retries out of
\* Error; of the session minted last: its CommitText and StartCapture counts and whether
\* a soft restart minted it; the tokens replaced by a soft restart; the tokens given up
\* by UserStop in Arming; the tokens ended by ArmingTimeout in Arming; sink is what the
\* last step passed to the output sink
HistInit ==
    [ev |-> NoEvent, pre |-> StateContext, eff |-> << >>, sink |-> << >>,
     path |-> "none", rel |-> 0, errs |-> 0, retries |-> 0,
     ncommit |-> 0, npromo |-> 0, soft |-> FALSE,
     superseded |-> {}, abandoned |-> {}, timedout |-> {}]

Record(h, e, c, out) ==
    LET begins == c.state = "IDLE" /\ out.ctx.state = "ARMING"
        nrel == CountType(out.effects, "RELEASE_RESOURCES")
        open == begins \/ h.path = "open"
        mints == out.ctx.session_id \notin {None, c.session_id}
        softly == mints /\ c.state = "RECORDING"
    IN [ev |-> e, pre |-> c, eff |-> out.effects, sink |-> on_text_commit(out.effects),
        path |-> IF open /\ out.ctx.state = "IDLE" THEN "done"
                 ELSE IF open THEN "open" ELSE h.path,
        rel |-> IF begins THEN nrel ELSE IF h.path = "open" THEN h.rel + nrel ELSE h.rel,
        errs |-> IF begins THEN 0
                 ELSE IF h.path = "open" /\ c.state # "ERROR" /\ out.ctx.state = "ERROR"
                      THEN h.errs + 1 ELSE h.errs,
        retries |-> IF begins THEN 0
                    ELSE IF h.path = "open" /\ c.state = "ERROR" /\ out.ctx.state = "ARMING"
                         THEN h.retries + 1 ELSE h.retries,
        ncommit |-> (IF mints THEN 0 ELSE h.ncommit) + CountType(out.effects, "COMMIT_TEXT"),
        npromo |-> (IF mints THEN 0 ELSE h.npromo) + CountType(out.effects, "START_CAPTURE"),
        soft |-> IF mints THEN softly ELSE h.soft,
        superseded |-> IF softly THEN h.superseded \cup {c.session_id} ELSE h.superseded,
        abandoned |-> IF e.type = "U_STOP" /\ c.state = "ARMING" /\ out.ctx.state = "IDLE"
                      THEN h.abandoned \cup {c.session_id} ELSE h.abandoned,
        timedout |-> IF e.type = "E_ARMING_TIMEOUT" /\ c.state = "ARMING"
                        /\ out.ctx.state = "IDLE"
                     THEN h.timedout \cup {c.session_id} ELSE h.timedout]

\* the record of the last handled event is kept only until the next step of another thread
Forget(h) ==
    [h EXCEPT !.ev = NoEvent, !.pre = StateContext, !.eff = << >>, !.sink = << >>]

\* ------------------------------------------------------------------ actions
Init ==
    /\ ctx = StateContext
    /\ queue = << >>
    /\ rt = RuntimeInit
    /\ minted = 0
    /\ hist = HistInit
    /\ s1pc = [pc |-> 0, order |-> << >>, sentence |-> "none"]

\* events in the queue that will mint a session when handled
Minters(q) == Cardinality({i \in DOMAIN q : q[i].type \in {"U_START", "S_DEFAULT_INPUT_CHANGED"}})

CanPost == Len(queue) < MaxQueue

CanMint == minted + Minters(queue) < MaxSessions

\* a thread other than the event loop posts e
Post(e) ==
    /\ CanPost
    /\ queue' = post_event(queue, e, ctx)
    /\ hist' = Forget(hist)
    /\ UNCHANGED <<ctx, minted>>

\* _event_loop / _handle_event: dequeue, step under the lock, execute the effects
EventLoop ==
    /\ queue # << >>
    /\ LET e == Head(queue)
           out == handle(ctx, e, minted + 1)
       IN /\ ctx' = out.ctx
          /\ queue' = Tail(queue)
          /\ rt' = execute_effects(rt, out.effects, out.ctx)
          /\ minted' = IF out.ctx.session_id = minted + 1 THEN minted + 1 ELSE minted
          /\ hist' = Record(hist, e, ctx, out)

\* user_start()
UserStart ==
    /\ CanMint
    /\ Post(Event("U_START", None, NoDetail))
    /\ UNCHANGED rt

\* user_stop()
UserStop ==
    /\ Post(Event("U_STOP", None, NoDetail))
    /\ UNCHANGED rt

\* the system listener callbacks installed by start()
SystemEvent ==
    \E t \in {"S_SYSTEM_WILL_SLEEP", "S_SYSTEM_DID_WAKE", "S_DEFAULT_INPUT_CHANGED"} :
       /\ t = "S_DEFAULT_INPUT_CHANGED" => CanMint
       /\ Post(Event(t, None, NoDetail))
       /\ UNCHANGED rt

\* the detached job of _check_permissions reporting t
CheckPermissionsResult(j, t) ==
    /\ j \in rt.jobs
    /\ j.kind = "check"
    /\ Post(Event(t, j.session_id, NoDetail))
    /\ rt' = [rt EXCEPT !.jobs = rt.jobs \ {j}]

CheckPermissionsJob ==
    \E j \in rt.jobs :
       \E t \in {"E_ACCESSIBILITY_DENIED", "S_MIC_PERMISSION_OK", "E_MIC_PERMISSION_DENIED"} :
          CheckPermissionsResult(j, t)

\* the detached job of _init_audio: recorder built while its session is live
InitAudioReady(j) ==
    /\ j \in rt.jobs
    /\ j.kind = "init"
    /\ ctx.session_id = j.session_id
    /\ Post(Event("S_AUDIO_READY", j.session_id, NoDetail))
    /\ rt' = [rt EXCEPT !.jobs = rt.jobs \ {j}, !.recorder = j.session_id,
                        !.capturing = TRUE]

\* the detached job of _init_audio: recorder built after its session ended, or not built
InitAudioJob ==
    \E j \in rt.jobs :
       \/ InitAudioReady(j)
       \/ /\ j.kind = "init"
          /\ ctx.session_id # j.session_id
          /\ rt' = [rt EXCEPT !.jobs = rt.jobs \ {j}]
          /\ hist' = Forget(hist)
          /\ UNCHANGED <<ctx, queue, minted>>
       \/ /\ j.kind = "init"
          /\ Post(Event("E_AUDIO_INIT_FAILED", j.session_id, "detail"))
          /\ rt' = [rt EXCEPT !.jobs = rt.jobs \ {j}]

\* the detached job of _connect_transport: connected
ConnectTransportReady(j) ==
    /\ j \in rt.jobs
    /\ j.kind = "connect"
    /\ Post(Event("S_TRANSPORT_CONNECTED", j.session_id, NoDetail))
    /\ rt' = [rt EXCEPT !.jobs = rt.jobs \ {j}, !.asr_client = j.session_id,
                        !.open = rt.open \cup {j.session_id}]

\* the detached job of _connect_transport: connected, no network, or connect failed
ConnectTransportJob ==
    \E j \in rt.jobs :
       \/ ConnectTransportReady(j)
       \/ /\ j.kind = "connect"
          /\ Post(Event("E_NETWORK_UNAVAILABLE", j.session_id, NoDetail))
          /\ rt' = [rt EXCEPT !.jobs = rt.jobs \ {j}]
       \/ /\ j.kind = "connect"
          /\ Post(Event("E_TRANSPORT_ERROR", j.session_id, "detail"))
          /\ rt' = [rt EXCEPT !.jobs = rt.jobs \ {j}]

\* on_timeout of _arm_flush_timeout
FlushTimerFires ==
    /\ rt.flush_timer
    /\ Post(Event("S_FLUSH_TIMEOUT", None, NoDetail))
    /\ rt' = [rt EXCEPT !.flush_timer = FALSE]

\* on_timeout of _arm_arming_timeout
ArmingTimerFires ==
    /\ rt.arming_timeout_timer
    /\ Post(Event("E_ARMING_TIMEOUT", None, NoDetail))
    /\ rt' = [rt EXCEPT !.arming_timeout_timer = FALSE]

\* on_timeout of _arm_error_recover
ErrorRecoverTimerFires ==
    /\ rt.error_recover_timer
    /\ Post(Event("S_AUTO_RECOVER", None, NoDetail))
    /\ rt' = [rt EXCEPT !.error_recover_timer = FALSE]

\* check_silence of _arm_silence_timeout, at the tick where the silence window has
\* elapsed, or where the state is no longer Recording and the check ends
SilenceTimeout ==
    /\ rt.silence_check_timer
    /\ IF ctx.state = "RECORDING"
       THEN Post(Event("U_STOP", rt.silence_check_session, NoDetail))
       ELSE /\ hist' = Forget(hist)
            /\ UNCHANGED <<ctx, queue, minted>>
    /\ rt' = [rt EXCEPT !.silence_check_timer = FALSE]

\* check_silence of _arm_silence_timeout, one second after the timer was armed: it ends
\* when the state is no longer Recording, posts UserStop with the captured session when
\* the silence has lasted timeout_s, and arms the next check otherwise
CheckSilence ==
    /\ rt.silence_check_timer
    /\ IF ctx.state # "RECORDING"
       THEN /\ rt' = [rt EXCEPT !.silence_check_timer = FALSE]
            /\ hist' = Forget(hist)
            /\ UNCHANGED <<ctx, queue, minted>>
       ELSE IF rt.last_voice_age + 1 >= SILENCE_TIMEOUT_S
            THEN /\ Post(Event("U_STOP", rt.silence_check_session, NoDetail))
                 /\ rt' = [rt EXCEPT !.silence_check_timer = FALSE,
                                     !.last_voice_age = @ + 1]
            ELSE /\ rt' = [rt EXCEPT !.last_voice_age = @ + 1]
                 /\ hist' = Forget(hist)
                 /\ UNCHANGED <<ctx, queue, minted>>

\* the callback of the recorder in the slot delivers a block
OnAudioData(data) ==
    /\ rt.recorder # None
    /\ rt.capturing
    /\ rt' = on_audio_data(rt, ctx, data, rt.recorder)
    /\ hist' = Forget(hist)
    /\ UNCHANGED <<ctx, queue, minted>>

\* one round of AudioSender._sender_loop: get_combined_pcm(max_items=10) and send
SenderLoop ==
    /\ rt.audio_sender # None
    /\ rt.audio_queue.q # << >>
    /\ rt' = [rt EXCEPT !.audio_queue = get_batch(rt.audio_queue, 10, rt.audio_sender).queue]
    /\ hist' = Forget(hist)
    /\ UNCHANGED <<ctx, queue, minted>>

\* _on_asr_result called with the session that is live: text bookkeeping, then
\* QueueFlushed when a definite result arrives in Stopping
Transcript(text, is_definite) ==
    /\ ctx.session_id # None
    /\ is_definite => Len(ctx.committed_text) + Len(text) <= MaxText
    /\ ctx' = on_asr_result(ctx, text, is_definite)
    /\ IF ctx.state = "STOPPING" /\ is_definite
       THEN /\ CanPost
            /\ queue' = post_event(queue, Event("S_QUEUE_FLUSHED", None, NoDetail), ctx)
       ELSE queue' = queue
    /\ hist' = Forget(hist)
    /\ UNCHANGED minted

\* the server answers audio it was sent on the live session's connection
AsrResult ==
    \E r \in ServerResults :
       /\ ctx.session_id \in rt.open
       /\ ctx.state \in {"RECORDING", "STOPPING"}
       /\ Transcript(r.text, r.is_definite)
       /\ UNCHANGED rt

\* _on_asr_error / a failed send in _send_audio_to_asr
TransportFault ==
    /\ rt.open # {}
    /\ Post(Event("E_TRANSPORT_ERROR", None, "detail"))
    /\ UNCHANGED rt

\* _on_recorder_error
RecorderFault ==
    /\ rt.recorder # None
    /\ Post(Event("E_AUDIO_DEVICE_GONE", None, "detail"))
    /\ UNCHANGED rt

\* on_idle of _reset_idle_timer: the periodic sweep releases what is left over in Idle
IdleSweep ==
    /\ ctx.state = "IDLE"
    /\ rt' = release_resources(rt)
    /\ hist' = Forget(hist)
    /\ UNCHANGED <<ctx, queue, minted>>

Next ==
    \/ EventLoop /\ UNCHANGED s1pc
    \/ UserStart /\ UNCHANGED s1pc
    \/ UserStop /\ UNCHANGED s1pc
    \/ SystemEvent /\ UNCHANGED s1pc
    \/ CheckPermissionsJob /\ UNCHANGED s1pc
    \/ InitAudioJob /\ UNCHANGED s1pc
    \/ ConnectTransportJob /\ UNCHANGED s1pc
    \/ FlushTimerFires /\ UNCHANGED s1pc
    \/ ArmingTimerFires /\ UNCHANGED s1pc
    \/ ErrorRecoverTimerFires /\ UNCHANGED s1pc
    \/ SilenceTimeout /\ UNCHANGED s1pc
    \/ AsrResult /\ UNCHANGED s1pc
    \/ TransportFault /\ UNCHANGED s1pc
    \/ RecorderFault /\ UNCHANGED s1pc
    \/ IdleSweep /\ UNCHANGED s1pc

Spec == Init /\ [][Next]_vars

\* the event loop thread always gets to run, and a timer that is armed fires: its
\* on_timeout posts to an unbounded queue.Queue and cannot be blocked for ever
FairSpec ==
    /\ Spec
    /\ WF_vars(EventLoop /\ UNCHANGED s1pc)
    /\ SF_vars(FlushTimerFires /\ UNCHANGED s1pc)

\* the event loop thread always gets to run, and an arming timer that is armed fires
\* after its 5 s
ArmingFairSpec ==
    /\ Spec
    /\ WF_vars(EventLoop /\ UNCHANGED s1pc)
    /\ SF_vars(ArmingTimerFires /\ UNCHANGED s1pc)

\* the event loop thread always gets to run, and an error_recover timer that is armed
\* fires after its 3 s
RecoverFairSpec ==
    /\ Spec
    /\ WF_vars(EventLoop /\ UNCHANGED s1pc)
    /\ SF_vars(ErrorRecoverTimerFires /\ UNCHANGED s1pc)

\* -------------------------------------------------- the idle timer's thread
\* on_idle of _reset_idle_timer, whenever the 60 s timer fires: start() arms the timer
\* and on_idle arms it again, in every state; it releases the resources if it finds the
\* state Idle.  The firing is recorded as the last step
OnIdle ==
    /\ rt' = IF ctx.state = "IDLE" THEN release_resources(rt) ELSE rt
    /\ hist' = [Forget(hist) EXCEPT !.ev = Event("idle_sweep", None, NoDetail), !.pre = ctx]
    /\ UNCHANGED <<ctx, queue, minted>>

SweepNext ==
    \/ Next
    \/ OnIdle /\ UNCHANGED s1pc

SweepSpec == Init /\ [][SweepNext]_vars

\* ------------------------------------------ callbacks that outlive their session
\* s1pc follows one late callback: pc is the session live when the timer or adapter was
\* set up, order the event type of a timer callback, sentence the callback's position
NoLate == [pc |-> 0, order |-> << >>, sentence |-> "none"]

\* _event_loop; the step that handles the late callback's event is marked
LateLoop ==
    /\ EventLoop
    /\ s1pc' = IF s1pc.sentence = "late" THEN [s1pc EXCEPT !.sentence = "handled"]
               ELSE IF s1pc.sentence = "slipped" THEN s1pc
               ELSE NoLate

\* _on_asr_error called by the websocket thread of a connection created for a session
\* that is no longer the live one, or _on_recorder_error called by such a recorder
AbandonedAdapterError ==
    \E a \in 1..minted :
       \E t \in {"E_TRANSPORT_ERROR", "E_AUDIO_DEVICE_GONE"} :
          /\ s1pc.sentence \in {"none", "handled"}
          /\ ctx.session_id # None
          /\ a # ctx.session_id
          /\ IF t = "E_TRANSPORT_ERROR" THEN a \in rt.open ELSE rt.recorder = a
          /\ queue = << >>
          /\ Post(Event(t, None, "detail"))
          /\ UNCHANGED rt
          /\ s1pc' = [pc |-> a, order |-> << >>, sentence |-> "late"]

\* a threading.Timer thread enters on_timeout: from here on cancel() has no effect
TimerSlips ==
    \E t \in {"E_ARMING_TIMEOUT", "S_FLUSH_TIMEOUT", "S_AUTO_RECOVER"} :
       /\ s1pc.sentence \in {"none", "handled"}
       /\ ctx.session_id # None
       /\ CASE t = "E_ARMING_TIMEOUT" ->
                 rt.arming_timeout_timer
                    /\ rt' = [rt EXCEPT !.arming_timeout_timer = FALSE]
            [] t = "S_FLUSH_TIMEOUT" ->
                 rt.flush_timer /\ rt' = [rt EXCEPT !.flush_timer = FALSE]
            [] t = "S_AUTO_RECOVER" ->
                 rt.error_recover_timer
                    /\ rt' = [rt EXCEPT !.error_recover_timer = FALSE]
       /\ s1pc' = [pc |-> ctx.session_id, order |-> << t >>, sentence |-> "slipped"]
       /\ hist' = Forget(hist)
       /\ UNCHANGED <<ctx, queue, minted>>

\* on_timeout of that timer reaches post_event
SlippedTimerPosts ==
    /\ s1pc.sentence = "slipped"
    /\ queue = << >>
    /\ Post(Event(s1pc.order[1], None, NoDetail))
    /\ UNCHANGED rt
    /\ s1pc' = IF ctx.session_id # None /\ ctx.session_id # s1pc.pc
               THEN [s1pc EXCEPT !.sentence = "late"]
               ELSE NoLate

LateNext ==
    \/ LateLoop
    \/ AbandonedAdapterError
    \/ TimerSlips
    \/ SlippedTimerPosts
    \/ UserStart /\ UNCHANGED s1pc
    \/ UserStop /\ UNCHANGED s1pc
    \/ SystemEvent /\ UNCHANGED s1pc
    \/ CheckPermissionsJob /\ UNCHANGED s1pc
    \/ InitAudioJob /\ UNCHANGED s1pc
    \/ ConnectTransportJob /\ UNCHANGED s1pc
    \/ FlushTimerFires /\ UNCHANGED s1pc
    \/ ArmingTimerFires /\ UNCHANGED s1pc
    \/ ErrorRecoverTimerFires /\ UNCHANGED s1pc

LateSpec == Init /\ [][LateNext]_vars

\* --------------------------------------------- user_stop() step by step
\* s1pc follows one call of user_stop(): pc is the token post_event read from the
\* context, order the number of events queued ahead of the UserStop, sentence the
\* position of the call ("stamped", "put") and then of its event ("handled")
StopLoop ==
    /\ EventLoop
    /\ s1pc' = IF s1pc.sentence = "put"
               THEN IF s1pc.order[1] = 0 THEN [s1pc EXCEPT !.sentence = "handled"]
                    ELSE [s1pc EXCEPT !.order = << s1pc.order[1] - 1 >>]
               ELSE IF s1pc.sentence = "handled" THEN NoLate
               ELSE s1pc

\* post_event, line 1: `if not event.session_id: event.session_id = self._ctx.session_id`
UserStopStamps ==
    /\ s1pc.sentence = "none"
    /\ s1pc' = [pc |-> ctx.session_id, order |-> << >>, sentence |-> "stamped"]
    /\ hist' = Forget(hist)
    /\ UNCHANGED <<ctx, queue, rt, minted>>

\* post_event, line 2: `self._event_queue.put(event)`
UserStopPuts ==
    /\ s1pc.sentence = "stamped"
    /\ CanPost
    /\ queue' = Append(queue, Event("U_STOP", s1pc.pc, NoDetail))
    /\ s1pc' = [s1pc EXCEPT !.order = << Len(queue) >>, !.sentence = "put"]
    /\ hist' = Forget(hist)
    /\ UNCHANGED <<ctx, rt, minted>>

StopNext ==
    \/ StopLoop
    \/ UserStopStamps
    \/ UserStopPuts
    \/ UserStart /\ UNCHANGED s1pc
    \/ SystemEvent /\ UNCHANGED s1pc
    \/ CheckPermissionsJob /\ UNCHANGED s1pc
    \/ InitAudioJob /\ UNCHANGED s1pc
    \/ ConnectTransportJob /\ UNCHANGED s1pc
    \/ FlushTimerFires /\ UNCHANGED s1pc
    \/ ArmingTimerFires /\ UNCHANGED s1pc
    \/ ErrorRecoverTimerFires /\ UNCHANGED s1pc

StopSpec == Init /\ [][StopNext]_vars

\* ------------------------------------------- _on_asr_result step by step
\* s1pc follows one call of _on_asr_result: pc is the session the connection was
\* created for, order the result it delivers, sentence the position of the call
ResultLoop == EventLoop /\ UNCHANGED s1pc

\* `if self._ctx.session_id != session_id: return`, read without the lock, passes
AsrResultChecked ==
    \E r \in ServerResults :
       /\ s1pc.sentence \in {"none", "applied"}
       /\ ctx.session_id \in rt.open
       /\ ctx.state \in {"RECORDING", "STOPPING"}
       /\ s1pc' = [pc |-> ctx.session_id, order |-> << r >>, sentence |-> "checked"]
       /\ hist' = Forget(hist)
       /\ UNCHANGED <<ctx, queue, rt, minted>>

\* `with self._ctx_lock:` the text bookkeeping, then QueueFlushed for a definite result
\* that finds the state Stopping
AsrResultApplied ==
    /\ s1pc.sentence = "checked"
    /\ LET r == s1pc.order[1]
       IN /\ r.is_definite => Len(ctx.committed_text) + Len(r.text) <= MaxText
          /\ ctx' = on_asr_result(ctx, r.text, r.is_definite)
          /\ IF ctx.state = "STOPPING" /\ r.is_definite
             THEN /\ CanPost
                  /\ queue' = post_event(queue, Event("S_QUEUE_FLUSHED", None, NoDetail), ctx)
             ELSE queue' = queue
    /\ s1pc' = [s1pc EXCEPT !.sentence = "applied"]
    /\ hist' = Forget(hist)
    /\ UNCHANGED <<rt, minted>>

ResultNext ==
    \/ ResultLoop
    \/ AsrResultChecked
    \/ AsrResultApplied
    \/ UserStart /\ UNCHANGED s1pc
    \/ UserStop /\ UNCHANGED s1pc
    \/ SystemEvent /\ UNCHANGED s1pc
    \/ CheckPermissionsJob /\ UNCHANGED s1pc
    \/ InitAudioJob /\ UNCHANGED s1pc
    \/ ConnectTransportJob /\ UNCHANGED s1pc
    \/ FlushTimerFires /\ UNCHANGED s1pc
    \/ ArmingTimerFires /\ UNCHANGED s1pc

ResultSpec == Init /\ [][ResultNext]_vars

\* ------------------------------------- a system listener callback step by step
\* s1pc follows one callback of the system listener: pc is the token post_event read
\* from the context, order the event type, sentence the position of the call ("stamped",
\* "put") and then of its event ("handled")
ProbeLoop ==
    /\ EventLoop
    /\ s1pc' = IF s1pc.sentence = "put" /\ Head(queue).type = s1pc.order[1]
               THEN [s1pc EXCEPT !.sentence = "handled"]
               ELSE IF s1pc.sentence = "handled" THEN NoLate
               ELSE s1pc

\* post_event, line 1, called by on_sleep, on_wake or on_audio_device_changed
SystemEventStamps ==
    \E t \in {"S_SYSTEM_WILL_SLEEP", "S_SYSTEM_DID_WAKE", "S_DEFAULT_INPUT_CHANGED"} :
       /\ s1pc.sentence = "none"
       /\ s1pc' = [pc |-> ctx.session_id, order |-> << t >>, sentence |-> "stamped"]
       /\ hist' = Forget(hist)
       /\ UNCHANGED <<ctx, queue, rt, minted>>

\* post_event, line 2: `self._event_queue.put(event)`
SystemEventPuts ==
    /\ s1pc.sentence = "stamped"
    /\ CanPost
    /\ s1pc.order[1] = "S_DEFAULT_INPUT_CHANGED" => CanMint
    /\ queue' = Append(queue, Event(s1pc.order[1], s1pc.pc, NoDetail))
    /\ s1pc' = [s1pc EXCEPT !.sentence = "put"]
    /\ hist' = Forget(hist)
    /\ UNCHANGED <<ctx, rt, minted>>

ProbeNext ==
    \/ ProbeLoop
    \/ SystemEventStamps
    \/ SystemEventPuts
    \/ UserStart /\ UNCHANGED s1pc
    \/ CheckPermissionsJob /\ UNCHANGED s1pc
    \/ InitAudioJob /\ UNCHANGED s1pc
    \/ ConnectTransportJob /\ UNCHANGED s1pc
    \/ FlushTimerFires /\ UNCHANGED s1pc
    \/ ArmingTimerFires /\ UNCHANGED s1pc
    \/ ErrorRecoverTimerFires /\ UNCHANGED s1pc

ProbeSpec == Init /\ [][ProbeNext]_vars

\* ------------------------------------------------ the threading.Timer objects
\* In TimerSpec s1pc holds the timer threads: timers is the set of started timers that
\* are still waiting (neither cancelled nor fired), each with the name of the attribute
\* it was stored in, the session its callback captured, and ref, whether the attribute
\* still refers to it; rearming is the set of sessions captured by check_silence calls
\* that have decided to go on and have not yet started the next timer
TimerNames == {"arming_timeout", "flush_timeout", "error_recover", "silence_check", "idle_sweep"}

TimerObj(n, s) == [name |-> n, session_id |-> s, ref |-> TRUE]

\* _cancel_timer(self._<n>_timer): Timer.cancel() stops the timer the attribute refers
\* to if it is still waiting
cancel_timer(T, n) == { t \in T : ~(t.name = n /\ t.ref) }

\* `self._<n>_timer = threading.Timer(...)` and start(): the attribute now refers to the
\* new timer and to no other
store_timer(T, n, s) ==
    { IF t.name = n THEN [t EXCEPT !.ref = FALSE] ELSE t : t \in T } \cup {TimerObj(n, s)}

\* _arm_flush_timeout, _arm_arming_timeout, _arm_error_recover, _arm_silence_timeout and
\* _reset_idle_timer: cancel what the attribute refers to, then create, store and start
arm_timer(T, n, s) == store_timer(cancel_timer(T, n), n, s)

\* what _execute_effect does to the timers, c being the context after the step
timer_effect(T, eff, c) ==
    CASE eff.type = "ARM_FLUSH_TIMEOUT" -> arm_timer(T, "flush_timeout", None)
      [] eff.type = "CANCEL_FLUSH_TIMEOUT" -> cancel_timer(T, "flush_timeout")
      [] eff.type = "ARM_ARMING_TIMEOUT" -> arm_timer(T, "arming_timeout", None)
      [] eff.type = "CANCEL_ARMING_TIMEOUT" -> cancel_timer(T, "arming_timeout")
      [] eff.type = "ARM_ERROR_RECOVER" -> arm_timer(T, "error_recover", None)
      [] eff.type = "CANCEL_ERROR_RECOVER" -> cancel_timer(T, "error_recover")
      [] eff.type = "START_CAPTURE" ->
            IF c.session_id = None THEN T ELSE arm_timer(T, "silence_check", c.session_id)
      [] eff.type \in {"STOP_CAPTURE", "RELEASE_RESOURCES"} -> cancel_timer(T, "silence_check")
      [] OTHER -> T

RECURSIVE timer_effects(_, _, _)
timer_effects(T, effs, c) ==
    IF effs = << >> THEN T
    ELSE timer_effects(timer_effect(T, Head(effs), c), Tail(effs), c)

\* start(): the idle timer is armed before any event is handled
TimerInit ==
    /\ ctx = StateContext
    /\ queue = << >>
    /\ rt = RuntimeInit
    /\ minted = 0
    /\ hist = HistInit
    /\ s1pc = [timers |-> {TimerObj("idle_sweep", None)}, rearming |-> {}]

\* _event_loop / _handle_event, with the timers its effects cancel and start
TimerLoop ==
    /\ EventLoop
    /\ LET out == handle(ctx, Head(queue), minted + 1)
       IN s1pc' = [s1pc EXCEPT !.timers = timer_effects(s1pc.timers, out.effects, out.ctx)]

\* on_timeout of a flush, arming or error_recover timer that was not cancelled
OneShotFires ==
    \E t \in s1pc.timers :
       /\ t.name \in {"flush_timeout", "arming_timeout", "error_recover"}
       /\ Post(Event(CASE t.name = "flush_timeout" -> "S_FLUSH_TIMEOUT"
                       [] t.name = "arming_timeout" -> "E_ARMING_TIMEOUT"
                       [] t.name = "error_recover" -> "S_AUTO_RECOVER",
                     None, NoDetail))
       /\ rt' = IF ~t.ref THEN rt
                ELSE CASE t.name = "flush_timeout" -> [rt EXCEPT !.flush_timer = FALSE]
                       [] t.name = "arming_timeout" -> [rt EXCEPT !.arming_timeout_timer = FALSE]
                       [] t.name = "error_recover" -> [rt EXCEPT !.error_recover_timer = FALSE]
       /\ s1pc' = [s1pc EXCEPT !.timers = s1pc.timers \ {t}]

\* check_silence up to its decision: return when the session or the state has changed,
\* post UserStop with the captured session when the silence has lasted timeout_s, go on
\* to start the next timer otherwise
SilenceTimerFires ==
    \E t \in s1pc.timers :
       \E timed_out \in BOOLEAN :
          /\ t.name = "silence_check"
          /\ IF rt.silence_check_session # t.session_id \/ ctx.state # "RECORDING"
             THEN /\ timed_out
                  /\ s1pc' = [s1pc EXCEPT !.timers = s1pc.timers \ {t}]
                  /\ rt' = IF t.ref THEN [rt EXCEPT !.silence_check_timer = FALSE] ELSE rt
                  /\ hist' = Forget(hist)
                  /\ UNCHANGED <<ctx, queue, minted>>
             ELSE IF timed_out
             THEN /\ Post(Event("U_STOP", t.session_id, NoDetail))
                  /\ s1pc' = [s1pc EXCEPT !.timers = s1pc.timers \ {t}]
                  /\ rt' = IF t.ref THEN [rt EXCEPT !.silence_check_timer = FALSE] ELSE rt
             ELSE /\ s1pc' = [timers |-> s1pc.timers \ {t},
                              rearming |-> s1pc.rearming \cup {t.session_id}]
                  /\ hist' = Forget(hist)
                  /\ UNCHANGED <<ctx, queue, rt, minted>>

\* check_silence, its last three lines: the next timer is created, stored and started
SilenceTimerRearms ==
    \E s \in s1pc.rearming :
       /\ s1pc' = [timers |-> store_timer(s1pc.timers, "silence_check", s),
                   rearming |-> s1pc.rearming \ {s}]
       /\ rt' = [rt EXCEPT !.silence_check_timer = TRUE]
       /\ hist' = Forget(hist)
       /\ UNCHANGED <<ctx, queue, minted>>

\* on_idle of _reset_idle_timer: release in Idle, then arm the idle timer again
IdleTimerFires ==
    \E t \in s1pc.timers :
       /\ t.name = "idle_sweep"
       /\ rt' = IF ctx.state = "IDLE" THEN release_resources(rt) ELSE rt
       /\ s1pc' = [s1pc EXCEPT !.timers =
                      arm_timer((IF ctx.state = "IDLE"
                                 THEN cancel_timer(s1pc.timers, "silence_check")
                                 ELSE s1pc.timers) \ {t},
                                "idle_sweep", None)]
       /\ hist' = Forget(hist)
       /\ UNCHANGED <<ctx, queue, minted>>

TimerNext ==
    \/ TimerLoop
    \/ OneShotFires
    \/ SilenceTimerFires
    \/ SilenceTimerRearms
    \/ IdleTimerFires
    \/ UserStart /\ UNCHANGED s1pc
    \/ UserStop /\ UNCHANGED s1pc
    \/ SystemEvent /\ UNCHANGED s1pc
    \/ CheckPermissionsJob /\ UNCHANGED s1pc
    \/ InitAudioJob /\ UNCHANGED s1pc
    \/ ConnectTransportJob /\ UNCHANGED s1pc

TimerSpec == TimerInit /\ [][TimerNext]_vars

\* ------------------------------------------------ on_idle step by step
\* s1pc follows one run of on_idle on the idle timer's thread: sentence is "is_idle"
\* between the read of the state under the lock and the release made outside it
OnIdleReads ==
    /\ s1pc.sentence = "none"
    /\ ctx.state = "IDLE"
    /\ s1pc' = [s1pc EXCEPT !.sentence = "is_idle"]
    /\ hist' = Forget(hist)
    /\ UNCHANGED <<ctx, queue, rt, minted>>

\* `if is_idle: self._release_resources()`
OnIdleReleases ==
    /\ s1pc.sentence = "is_idle"
    /\ rt' = release_resources(rt)
    /\ s1pc' = NoLate
    /\ hist' = Forget(hist)
    /\ UNCHANGED <<ctx, queue, minted>>

IdleRaceNext ==
    \/ EventLoop /\ UNCHANGED s1pc
    \/ OnIdleReads
    \/ OnIdleReleases
    \/ UserStart /\ UNCHANGED s1pc
    \/ UserStop /\ UNCHANGED s1pc
    \/ CheckPermissionsJob /\ UNCHANGED s1pc
    \/ InitAudioJob /\ UNCHANGED s1pc
    \/ ConnectTransportJob /\ UNCHANGED s1pc
    \/ FlushTimerFires /\ UNCHANGED s1pc
    \/ ArmingTimerFires /\ UNCHANGED s1pc
    \/ ErrorRecoverTimerFires /\ UNCHANGED s1pc

IdleRaceSpec == Init /\ [][IdleRaceNext]_vars

\* ------------------------------------------- StateMachine.handle on its own
\* class EventType
EventType ==
    { "U_START", "U_STOP", "U_QUIT",
      "S_MIC_PERMISSION_OK", "S_AUDIO_READY", "S_TRANSPORT_CONNECTED",
      "S_TRANSPORT_DISCONNECTED", "S_DEFAULT_INPUT_CHANGED", "S_SYSTEM_WILL_SLEEP",
      "S_SYSTEM_DID_WAKE", "S_QUEUE_FLUSHED", "S_FLUSH_TIMEOUT", "S_AUTO_RECOVER",
      "E_MIC_PERMISSION_DENIED", "E_ACCESSIBILITY_DENIED", "E_AUDIO_DEVICE_GONE",
      "E_AUDIO_INIT_FAILED", "E_TRANSPORT_ERROR", "E_NETWORK_UNAVAILABLE",
      "E_ARMING_TIMEOUT" }

\* the events handle reads the detail of
Details(t) ==
    IF t \in {"E_AUDIO_INIT_FAILED", "E_TRANSPORT_ERROR"} THEN {NoDetail, "detail"}
    ELSE {NoDetail}

\* every event type, stamped with no token or with any of the first m tokens
Events(m) == { Event(t, s, d) : t \in EventType, s \in 0..m, d \in {NoDetail, "detail"} }

\* StateMachine.handle called with any event; of the history only the counters are kept
Feed ==
    \E e \in Events(minted) :
       LET out == handle(ctx, e, minted + 1)
       IN /\ e.detail \in Details(e.type)
          /\ out.ctx.session_id = minted + 1 => minted < MaxSessions
          /\ ctx' = out.ctx
          /\ minted' = IF out.ctx.session_id = minted + 1 THEN minted + 1 ELSE minted
          /\ hist' = Forget(Record(hist, e, ctx, out))
          /\ UNCHANGED <<queue, rt, s1pc>>

\* the text bookkeeping of _on_asr_result between two calls of handle
FeedResult ==
    \E r \in ServerResults :
       /\ ctx.session_id # None
       /\ r.is_definite => Len(ctx.committed_text) + Len(r.text) <= MaxText
       /\ ctx' = on_asr_result(ctx, r.text, r.is_definite)
       /\ hist' = Forget(hist)
       /\ UNCHANGED <<queue, rt, minted, s1pc>>

MachineNext == Feed \/ FeedResult

MachineSpec == Init /\ [][MachineNext]_vars

\* ------------------------------------------------ scenario S1, the happy path
\* the orders in which the three bring-up jobs may finish
JobOrders ==
    { o \in [1..3 -> {"check", "init", "connect"}] : \A i, k \in 1..3 : o[i] = o[k] => i = k }

\* how the sentence "nihao." is reported while the user still speaks: as a definite
\* result, as a partial hypothesis, or not before the stop
S1Init ==
    /\ ctx = StateContext
    /\ queue = << >>
    /\ rt = RuntimeInit
    /\ minted = 0
    /\ hist = HistInit
    /\ s1pc \in { [pc |-> 1, order |-> o, sentence |-> w] :
                     o \in JobOrders, w \in {"definite", "partial", "absent"} }

S1Loop == EventLoop /\ UNCHANGED s1pc

S1UserStart ==
    /\ s1pc.pc = 1
    /\ UserStart
    /\ s1pc' = [s1pc EXCEPT !.pc = 2]

S1BringUp ==
    /\ s1pc.pc \in 2..4
    /\ LET k == s1pc.order[s1pc.pc - 1]
           j == Job(k, ctx.session_id)
       IN \/ k = "check" /\ CheckPermissionsResult(j, "S_MIC_PERMISSION_OK")
          \/ k = "init" /\ InitAudioReady(j)
          \/ k = "connect" /\ ConnectTransportReady(j)
    /\ s1pc' = [s1pc EXCEPT !.pc = @ + 1]

S1Partial ==
    /\ s1pc.pc \in 5..6
    /\ ctx.state = "RECORDING"
    /\ Transcript(<< IF s1pc.pc = 5 THEN "ni" ELSE "nihao" >>, FALSE)
    /\ s1pc' = [s1pc EXCEPT !.pc = IF @ = 6 /\ s1pc.sentence = "absent" THEN 8 ELSE @ + 1]
    /\ UNCHANGED rt

S1Sentence ==
    /\ s1pc.pc = 7
    /\ ctx.state = "RECORDING"
    /\ Transcript(<< "nihao." >>, s1pc.sentence = "definite")
    /\ s1pc' = [s1pc EXCEPT !.pc = 8]
    /\ UNCHANGED rt

S1UserStop ==
    /\ s1pc.pc = 8
    /\ ctx.state = "RECORDING"
    /\ UserStop
    /\ s1pc' = [s1pc EXCEPT !.pc = 9]

\* the server's final result after the stop: the sentence, unless it was already
\* reported as definite
S1Final ==
    /\ s1pc.pc = 9
    /\ ctx.state = "STOPPING"
    /\ Transcript(IF s1pc.sentence = "definite" THEN << >> ELSE << "nihao." >>, TRUE)
    /\ s1pc' = [s1pc EXCEPT !.pc = 10]
    /\ UNCHANGED rt

S1Done == s1pc.pc = 10 /\ queue = << >>

S1Next ==
    \/ S1Loop
    \/ S1UserStart
    \/ S1BringUp
    \/ S1Partial
    \/ S1Sentence
    \/ S1UserStop
    \/ S1Final

S1Spec == S1Init /\ [][S1Next]_vars

\* ------------------------------------------------- the AudioQueue on its own
\* the recorder callback puts a block for the session it captures for; sessions follow
\* one another, and successive blocks differ
QPut ==
    \E s \in 1..MaxSessions :
       LET q == rt.audio_queue.q
           data == IF q = << >> THEN << 0 >> ELSE << (q[Len(q)].data[1] + 1) % 3 >>
       IN /\ q # << >> => q[Len(q)].session_id <= s
          /\ rt.audio_queue.total_dropped < MaxDrops
          /\ rt' = [rt EXCEPT !.audio_queue = put(rt.audio_queue, data, s)]
          /\ UNCHANGED <<ctx, queue, minted, hist, s1pc>>

\* the sender takes a batch of at most one or ten frames, for a session or for any
QGetBatch ==
    \E max_items \in {1, 10}, current_session \in 0..MaxSessions :
       /\ rt' = [rt EXCEPT !.audio_queue =
                     get_batch(rt.audio_queue, max_items, current_session).queue]
       /\ UNCHANGED <<ctx, queue, minted, hist, s1pc>>

QFlush ==
    \E current_session \in 0..MaxSessions :
       /\ rt' = [rt EXCEPT !.audio_queue = flush(rt.audio_queue, current_session).queue]
       /\ UNCHANGED <<ctx, queue, minted, hist, s1pc>>

QClear ==
    /\ rt' = [rt EXCEPT !.audio_queue = clear(rt.audio_queue)]
    /\ UNCHANGED <<ctx, queue, minted, hist, s1pc>>

QueueNext == QPut \/ QGetBatch \/ QFlush \/ QClear

QueueSpec == Init /\ [][QueueNext]_vars

\* ---------------------------------------------- scenario S6, silence auto-stop
\* a session is brought up as in S1; the microphone then hears only silence, or speech
\* from time to time; nobody releases the key
S6Init ==
    /\ ctx = StateContext
    /\ queue = << >>
    /\ rt = RuntimeInit
    /\ minted = 0
    /\ hist = HistInit
    /\ s1pc \in { [pc |-> 1, order |-> o, sentence |-> w] :
                     o \in JobOrders, w \in {"silence", "speech"} }

S6Loop == EventLoop /\ UNCHANGED s1pc

S6AudioData ==
    \E data \in PcmBlocks :
       /\ s1pc.sentence = "silence" => ~Loud(data)
       /\ Len(rt.audio_queue.q) < MaxBacklog
       /\ OnAudioData(data)
       /\ UNCHANGED s1pc

S6Sender == SenderLoop /\ UNCHANGED s1pc

S6CheckSilence == CheckSilence /\ UNCHANGED s1pc

S6Result == AsrResult /\ UNCHANGED s1pc

S6FlushTimer == FlushTimerFires /\ UNCHANGED s1pc

S6Next ==
    \/ S1UserStart
    \/ S1BringUp
    \/ S6Loop
    \/ S6AudioData
    \/ S6Sender
    \/ S6CheckSilence
    \/ S6Result
    \/ S6FlushTimer

S6Spec == S6Init /\ [][S6Next]_vars

\* the event loop always gets to run, the one-second timer of the silence check fires
\* while it is armed, and the flush timer fires once armed
S6FairSpec ==
    /\ S6Spec
    /\ WF_vars(S6Loop)
    /\ WF_vars(S6CheckSilence)
    /\ SF_vars(S6FlushTimer)

\* ------------------------------------------- the sender and a lost connection
\* a session is brought up as in S1 and audio flows; the server then closes the
\* websocket and the sender goes on taking batches from the queue
TransportErrors(q, s) ==
    Cardinality({i \in DOMAIN q : q[i].type = "E_TRANSPORT_ERROR" /\ q[i].session_id = s})

\* ASRClient._on_close: the websocket of the client in the slot is closed by the peer
OnClose ==
    /\ rt.asr_client # None
    /\ rt.asr_client \in rt.open
    /\ rt' = [rt EXCEPT !.open = rt.open \ {rt.asr_client}]
    /\ hist' = Forget(hist)
    /\ UNCHANGED <<ctx, queue, minted, s1pc>>

\* one round of _sender_loop on a connected client: the batch is sent
SendOk ==
    /\ rt.asr_client \in rt.open
    /\ SenderLoop
    /\ UNCHANGED s1pc

\* one round of _sender_loop on a client that is no longer connected: send_audio returns
\* False, _send_audio_to_asr posts TransportError, and the loop goes on
SendFails ==
    /\ rt.audio_sender # None
    /\ get_batch(rt.audio_queue, 10, rt.audio_sender).items # << >>
    /\ rt.asr_client # None
    /\ rt.asr_client \notin rt.open
    /\ TransportErrors(queue, ctx.session_id) < MaxSendErrors
    /\ rt' = [rt EXCEPT !.audio_queue = get_batch(rt.audio_queue, 10, rt.audio_sender).queue]
    /\ queue' = post_event(queue, Event("E_TRANSPORT_ERROR", None, "detail"), ctx)
    /\ hist' = Forget(hist)
    /\ UNCHANGED <<ctx, minted, s1pc>>

SendNext ==
    \/ S1UserStart
    \/ S1BringUp
    \/ S6Loop
    \/ S6AudioData
    \/ OnClose
    \/ SendOk
    \/ SendFails
    \/ S6FlushTimer

SendSpec == S6Init /\ [][SendNext]_vars

\* ------------------------------------------- ASRClient._parse_response
\* class ASRClient, protocol constants
PROTOCOL_VERSION == 1
HEADER_SIZE == 1
MSG_FULL_SERVER_RESPONSE == 9
MSG_ERROR == 15
SERIAL_JSON == 1
COMPRESS_NONE == 0
COMPRESS_GZIP == 1

\* struct.pack('>I', n) and struct.unpack('>I', b)[0]
pack_u32(n) == << n \div 16777216, (n \div 65536) % 256, (n \div 256) % 256, n % 256 >>

unpack_u32(b) == ((b[1] * 256 + b[2]) * 256 + b[3]) * 256 + b[4]

\* gzip: the payload between the two magic bytes and a trailer; decompress fails on
\* anything else
gzip_compress(b) == << 31, 139 >> \o b \o << 0 >>

gzip_decompress(b) ==
    IF Len(b) >= 3 /\ b[1] = 31 /\ b[2] = 139 /\ b[Len(b)] = 0
    THEN [ok |-> TRUE, data |-> SubSeq(b, 3, Len(b) - 1)]
    ELSE [ok |-> FALSE, data |-> << >>]

\* the JSON documents of the server: with or without "result", whose "text" is absent
\* (0), "ni" (1) or "nihao." (2), and whose "utterances" is absent (0), empty (1), or ends
\* with an utterance that is definite (2), not definite (3) or has no "definite" key (4)
Docs ==
    { [result |-> r, text |-> t, utterances |-> u] :
         r \in BOOLEAN, t \in 0..2, u \in 0..4 }

\* the document as text: braces around the members
json_dumps(doc) ==
    << 123 >> \o (IF doc.result THEN << 114, doc.text, doc.utterances >> ELSE << >>) \o << 125 >>

\* json.loads(payload.decode('utf-8')): JSONDecodeError unless the text is a whole document
json_loads(b) ==
    IF Len(b) = 2 /\ b[1] = 123 /\ b[2] = 125
    THEN [ok |-> TRUE, doc |-> [result |-> FALSE, text |-> 0, utterances |-> 0]]
    ELSE IF Len(b) = 5 /\ b[1] = 123 /\ b[2] = 114 /\ b[5] = 125
    THEN [ok |-> TRUE, doc |-> [result |-> TRUE, text |-> b[3], utterances |-> b[4]]]
    ELSE [ok |-> FALSE, doc |-> [result |-> FALSE, text |-> 0, utterances |-> 0]]

\* result['result'].get('text', '')
get_text(doc) ==
    CASE doc.text = 1 -> << "ni" >> [] doc.text = 2 -> << "nihao." >> [] OTHER -> << >>

\* utterances[-1].get('definite', False) if utterances else False
get_definite(doc) == doc.utterances = 2

\* the 4-byte header the server builds, as _build_header does
build_header(msg_type, msg_flags, serial, compress) ==
    << PROTOCOL_VERSION * 16 + HEADER_SIZE, msg_type * 16 + msg_flags,
       serial * 16 + compress, 0 >>

\* what a frame is made from: its type, whether it carries a sequence number, the
\* compression its header announces, its payload (a document or bytes that are no
\* document, gzipped or not), and how much of the frame arrives
FrameSpecs ==
    { [type |-> ty, seq |-> sq, compress |-> c, doc |-> d, json |-> j, zipped |-> z,
       keep |-> k] :
         ty \in {"response", "error"}, sq \in BOOLEAN,
         c \in {COMPRESS_NONE, COMPRESS_GZIP}, d \in Docs, j \in BOOLEAN, z \in BOOLEAN,
         k \in {"all", "short", "no_size", "cut"} }

\* the bytes of the frame
frame_bytes(f) ==
    LET text == IF f.json THEN json_dumps(f.doc) ELSE << 123, 114 >>
        payload == IF f.zipped THEN gzip_compress(text) ELSE text
        whole == IF f.type = "error"
                 THEN build_header(MSG_ERROR, 0, SERIAL_JSON, f.compress)
                         \o pack_u32(45000001) \o pack_u32(Len(text)) \o text
                 ELSE build_header(MSG_FULL_SERVER_RESPONSE, IF f.seq THEN 1 ELSE 0,
                                   SERIAL_JSON, f.compress)
                         \o (IF f.seq THEN pack_u32(1) ELSE << >>)
                         \o pack_u32(Len(payload)) \o payload
    IN CASE f.keep = "all" -> whole
         [] f.keep = "short" -> SubSeq(whole, 1, 3)
         [] f.keep = "no_size" -> SubSeq(whole, 1, 6)
         [] f.keep = "cut" -> SubSeq(whole, 1, Len(whole) - 1)

\* the callback _parse_response ends with, if any
NoCallback == [kind |-> "none", text |-> << >>, is_definite |-> FALSE]

OnError == [kind |-> "on_error", text |-> << >>, is_definite |-> FALSE]

OnResult(text, is_definite) == [kind |-> "on_result", text |-> text, is_definite |-> is_definite]

\* ASRClient._parse_response
parse_response(data) ==
    IF Len(data) < 4 THEN NoCallback
    ELSE LET msg_type == (data[2] \div 16) % 16
             msg_flags == data[2] % 16
             compress == data[3] % 16
         IN IF msg_type = MSG_ERROR THEN OnError
            ELSE IF msg_type # MSG_FULL_SERVER_RESPONSE THEN NoCallback
            ELSE LET offset == 4 + (IF msg_flags % 2 = 1 THEN 4 ELSE 0)
                 IN IF Len(data) < offset + 4 THEN NoCallback
                    ELSE LET payload_size == unpack_u32(SubSeq(data, offset + 1, offset + 4))
                         IN IF Len(data) < offset + 4 + payload_size THEN NoCallback
                            ELSE LET raw == SubSeq(data, offset + 5, offset + 4 + payload_size)
                                     z == IF compress = COMPRESS_GZIP
                                          THEN gzip_decompress(raw)
                                          ELSE [ok |-> TRUE, data |-> raw]
                                     j == json_loads(z.data)
                                 IN IF ~z.ok THEN OnError
                                    ELSE IF ~j.ok THEN OnError
                                    ELSE IF j.doc.result
                                    THEN OnResult(get_text(j.doc), get_definite(j.doc))
                                    ELSE NoCallback

\* a session is brought up as in S1; s1pc.sentence is the frame the server then sends
ParseInit ==
    /\ ctx = StateContext
    /\ queue = << >>
    /\ rt = RuntimeInit
    /\ minted = 0
    /\ hist = HistInit
    /\ s1pc \in { [pc |-> 1, order |-> o, sentence |-> f] : o \in JobOrders, f \in FrameSpecs }

\* ASRClient._on_message on the connection of the live session: _parse_response, then
\* _on_asr_error or _on_asr_result of the coordinator
OnMessage ==
    /\ s1pc.pc = 5
    /\ ctx.state = "RECORDING"
    /\ ctx.session_id \in rt.open
    /\ LET cb == parse_response(frame_bytes(s1pc.sentence))
       IN CASE cb.kind = "on_error" -> Post(Event("E_TRANSPORT_ERROR", None, "detail"))
            [] cb.kind = "on_result" -> Transcript(cb.text, cb.is_definite)
            [] OTHER -> hist' = Forget(hist) /\ UNCHANGED <<ctx, queue, minted>>
    /\ s1pc' = [s1pc EXCEPT !.pc = 6]
    /\ UNCHANGED rt

ParseNext ==
    \/ S1UserStart
    \/ S1BringUp
    \/ S1Loop
    \/ OnMessage
    \/ S6FlushTimer

ParseSpec == ParseInit /\ [][ParseNext]_vars

\* ------------------------------------------- the sender thread and FlushQueue
\* one session is brought up as in S1 and the recorder delivers numbered blocks; the
\* sender thread and AudioSender.stop, run by the event loop for FLUSH_QUEUE, are followed
\* statement by statement.  Beside pc and order, s1pc holds the AudioSender (running,
\* current_session), the sender thread (sender: where it stands, held: the batch it has
\* taken), the event loop inside _flush_queue (stop: where it stands, todo: the effects
\* still to execute), the number of blocks captured, and wire: what the websocket of the
\* session has been given, in order
MaxCaptured == 3

\* b"".join(f.data for f in frames)
RECURSIVE combined_pcm(_)
combined_pcm(frames) ==
    IF frames = << >> THEN << >> ELSE Head(frames).data \o combined_pcm(Tail(frames))

\* ASRClient.send_audio on a connected client: one binary frame on the websocket
send_audio(w, pcm, is_last) == Append(w, [pcm |-> pcm, is_last |-> is_last])

\* RecordingCoordinator._send_audio_to_asr: the client in the slot, if it is connected,
\* sends the batch
send_audio_to_asr(w, r, pcm) ==
    IF r.asr_client # None /\ r.asr_client \in r.open THEN send_audio(w, pcm, FALSE) ELSE w

WireInit ==
    /\ ctx = StateContext
    /\ queue = << >>
    /\ rt = RuntimeInit
    /\ minted = 0
    /\ hist = HistInit
    /\ s1pc \in { [pc |-> 1, order |-> o, running |-> FALSE, current_session |-> None,
                   sender |-> "off", held |-> << >>, stop |-> "off", todo |-> << >>,
                   captured |-> 0, wire |-> << >>] : o \in JobOrders }

\* the event loop handles an event without FLUSH_QUEUE among its effects; START_CAPTURE
\* runs AudioSender.start, which starts the sender thread
WireLoop ==
    /\ s1pc.stop \in {"off", "done"}
    /\ queue # << >>
    /\ LET effs == handle(ctx, Head(queue), minted + 1).effects
       IN /\ \A i \in DOMAIN effs : effs[i].type # "FLUSH_QUEUE"
          /\ s1pc' = IF \E i \in DOMAIN effs : effs[i].type = "START_CAPTURE"
                     THEN [s1pc EXCEPT !.running = TRUE, !.sender = "test",
                                       !.current_session = handle(ctx, Head(queue), minted + 1).ctx.session_id]
                     ELSE s1pc
    /\ EventLoop

\* the user releases the key while the session records
WireUserStop ==
    /\ s1pc.pc = 5
    /\ ctx.state = "RECORDING"
    /\ UserStop
    /\ s1pc' = [s1pc EXCEPT !.pc = 6]

\* the recorder delivers its next block
WireAudioData ==
    /\ s1pc.captured < MaxCaptured
    /\ OnAudioData(<< s1pc.captured + 1 >>)
    /\ s1pc' = [s1pc EXCEPT !.captured = @ + 1]

\* _sender_loop: while self._running
SenderTests ==
    /\ s1pc.sender = "test"
    /\ s1pc' = [s1pc EXCEPT !.sender = IF s1pc.running THEN "take" ELSE "done"]
    /\ hist' = Forget(hist)
    /\ UNCHANGED <<ctx, queue, rt, minted>>

\* _sender_loop: get_combined_pcm(max_items=10); an empty batch goes back to the test
SenderTakes ==
    /\ s1pc.sender = "take"
    /\ LET b == get_batch(rt.audio_queue, 10, s1pc.current_session)
       IN /\ rt' = [rt EXCEPT !.audio_queue = b.queue]
          /\ s1pc' = [s1pc EXCEPT !.held = combined_pcm(b.items),
                                  !.sender = IF combined_pcm(b.items) = << >>
                                             THEN "test" ELSE "send"]
    /\ hist' = Forget(hist)
    /\ UNCHANGED <<ctx, queue, minted>>

\* _sender_loop: self._send_callback(pcm)
SenderSends ==
    /\ s1pc.sender = "send"
    /\ s1pc' = [s1pc EXCEPT !.wire = send_audio_to_asr(s1pc.wire, rt, s1pc.held),
                            !.held = << >>, !.sender = "test"]
    /\ hist' = Forget(hist)
    /\ UNCHANGED <<ctx, queue, rt, minted>>

\* the event loop handles an event with FLUSH_QUEUE among its effects: the step, the
\* effects before FLUSH_QUEUE, then _flush_queue enters AudioSender.stop, which clears
\* _running
StopBegins ==
    /\ s1pc.stop = "off"
    /\ queue # << >>
    /\ LET e == Head(queue)
           out == handle(ctx, e, minted + 1)
       IN /\ \E i \in DOMAIN out.effects : out.effects[i].type = "FLUSH_QUEUE"
          /\ LET k == CHOOSE i \in DOMAIN out.effects : out.effects[i].type = "FLUSH_QUEUE"
             IN /\ rt' = execute_effects(rt, SubSeq(out.effects, 1, k - 1), out.ctx)
                /\ rt.audio_sender # None /\ s1pc.running
                /\ s1pc' = [s1pc EXCEPT !.running = FALSE, !.stop = "flush",
                                        !.todo = SubSeq(out.effects, k + 1, Len(out.effects))]
          /\ ctx' = out.ctx
          /\ queue' = Tail(queue)
          /\ hist' = Record(hist, e, ctx, out)
    /\ UNCHANGED minted

\* AudioSender.stop, one round of the flush loop: queue.flush, then the send callback;
\* an empty flush leaves the loop
StopFlushes ==
    /\ s1pc.stop = "flush"
    /\ LET f == flush(rt.audio_queue, s1pc.current_session)
           pcm == combined_pcm(f.items)
       IN /\ rt' = [rt EXCEPT !.audio_queue = f.queue]
          /\ s1pc' = IF f.items = << >> THEN [s1pc EXCEPT !.stop = "join"]
                     ELSE IF pcm = << >> THEN s1pc
                     ELSE [s1pc EXCEPT !.wire = send_audio_to_asr(s1pc.wire, rt, pcm)]
    /\ hist' = Forget(hist)
    /\ UNCHANGED <<ctx, queue, minted>>

\* AudioSender.stop: self._thread.join(timeout=0.5) returns because the thread has ended
StopJoins ==
    /\ s1pc.stop = "join"
    /\ s1pc.sender = "done"
    /\ s1pc' = [s1pc EXCEPT !.stop = "last"]
    /\ hist' = Forget(hist)
    /\ UNCHANGED <<ctx, queue, rt, minted>>

\* AudioSender.stop: self._thread.join(timeout=0.5) returns after half a second while
\* the thread is still inside the send callback
StopJoinTimesOut ==
    /\ s1pc.stop = "join"
    /\ s1pc.sender = "send"
    /\ s1pc' = [s1pc EXCEPT !.stop = "last"]
    /\ hist' = Forget(hist)
    /\ UNCHANGED <<ctx, queue, rt, minted>>

\* _flush_queue after stop(): the sender slot is emptied, the client in the slot sends
\* the empty is_last frame, and the event loop executes the remaining effects
FlushQueueSendsLast ==
    /\ s1pc.stop = "last"
    /\ rt' = execute_effects([rt EXCEPT !.audio_sender = None], s1pc.todo, ctx)
    /\ s1pc' = [s1pc EXCEPT !.stop = "done", !.todo = << >>,
                            !.wire = IF rt.asr_client # None /\ rt.asr_client \in rt.open
                                     THEN send_audio(s1pc.wire, << >>, TRUE) ELSE s1pc.wire]
    /\ hist' = Forget(hist)
    /\ UNCHANGED <<ctx, queue, minted>>

WireNext ==
    \/ S1UserStart
    \/ S1BringUp
    \/ WireLoop
    \/ WireUserStop
    \/ WireAudioData
    \/ SenderTests
    \/ SenderTakes
    \/ SenderSends
    \/ StopBegins
    \/ StopFlushes
    \/ StopJoins
    \/ StopJoinTimesOut
    \/ FlushQueueSendsLast
    \/ S6FlushTimer

WireSpec == WireInit /\ [][WireNext]_vars

\* ------------------------------------------------------------------- claims
\* what handle returns for e in the present context
Handled(e) == handle(ctx, e, minted + 1)

ReadinessTypes == {"S_MIC_PERMISSION_OK", "S_AUDIO_READY", "S_TRANSPORT_CONNECTED"}

AllReady(a) == a.perm_ok /\ a.audio_ready /\ a.transport_ready

\* the place of the one effect of type t in effs
Pos(effs, t) == CHOOSE i \in DOMAIN effs : effs[i].type = t

\* C1: an event handled with a token that is present and differs from the live token,
\* also when no session is live, leaves the context unchanged and has no effects
C1_StaleEventDropped ==
    (hist.ev.type # "none" /\ hist.ev.session_id # None
       /\ hist.ev.session_id # hist.pre.session_id)
    => (ctx = hist.pre /\ hist.eff = << >>)

\* C2 as stated: a path from a UserStart accepted in Idle back to Idle has emitted
\* ReleaseResources exactly once
C2_ReleaseExactlyOnce == hist.path = "done" => hist.rel = 1

\* C2 amended: such a path has emitted ReleaseResources once for its return to Idle and
\* once more for every entry into Error and for every retry out of Error, so exactly
\* once when it never enters Error
C2_ReleasePerErrorVisit ==
    /\ hist.path = "open" => hist.rel = hist.errs + hist.retries
    /\ hist.path = "done" => hist.rel = 1 + hist.errs + hist.retries
    /\ hist.retries <= hist.errs

C2_PathThroughErrorDone == hist.path = "done" /\ hist.errs = 1 /\ hist.rel = 2

\* C3: CommitText is emitted at most once per session, and only, once, by the step that
\* takes Stopping to Idle on QueueFlushed or FlushTimeout
C3_CommitOnce ==
    /\ hist.ncommit <= 1
    /\ \A e \in Events(minted) :
          HasType(Handled(e).effects, "COMMIT_TEXT")
          => /\ ctx.state = "STOPPING"
             /\ Handled(e).ctx.state = "IDLE"
             /\ e.type \in {"S_QUEUE_FLUSHED", "S_FLUSH_TIMEOUT"}
             /\ CountType(Handled(e).effects, "COMMIT_TEXT") = 1
             /\ hist.ncommit = 0

C3_Committed == hist.ncommit = 1 /\ ctx.state = "IDLE" /\ ctx.committed_text # << >>

\* C4: a session is promoted exactly once, by the step that latches the last of the
\* three flags, with the effects CancelTimer(arming_timeout), StartCapture, UpdateUi;
\* no other step emits them
C4_PromotionOnce ==
    /\ hist.npromo <= 1
    /\ ctx.state = "ARMING" => ~AllReady(ctx.arming) /\ hist.npromo = 0
    /\ ctx.state \in {"RECORDING", "STOPPING"} => AllReady(ctx.arming) /\ hist.npromo = 1
    /\ \A e \in Events(minted) :
          /\ (\/ HasType(Handled(e).effects, "START_CAPTURE")
              \/ (HasType(Handled(e).effects, "CANCEL_ARMING_TIMEOUT") /\ ctx.state # "ARMING")
              \/ (Handled(e).ctx.state = "RECORDING" /\ ctx.state # "RECORDING"))
             => /\ ctx.state = "ARMING"
                /\ e.type \in ReadinessTypes
                /\ ~AllReady(ctx.arming)
                /\ AllReady(Handled(e).ctx.arming)
                /\ Handled(e).ctx.state = "RECORDING"
                /\ Handled(e).ctx.session_id = ctx.session_id
                /\ Handled(e).effects = PromoteEffects
          /\ (ctx.state = "ARMING" /\ AllReady(Handled(e).ctx.arming)
                /\ Handled(e).ctx.session_id = ctx.session_id)
             => Handled(e).ctx.state = "RECORDING"

C4_Promoted ==
    /\ hist.npromo = 1
    /\ ctx.state = "RECORDING"
    /\ Handled(Event("S_AUDIO_READY", ctx.session_id, NoDetail)) = Out(ctx, << >>)

\* C5: the context holds a token exactly when the state is not Idle, the token is the
\* one minted last, every step into Idle clears it, and UserStart in Idle or Error and
\* DefaultInputChanged in Recording mint a token that was never used before
C5_OneLiveToken ==
    /\ ctx.session_id # None <=> ctx.state # "IDLE"
    /\ ctx.session_id \in {None, minted}
    /\ \A e \in Events(minted) :
          /\ Handled(e).ctx.state = "IDLE" => Handled(e).ctx.session_id = None
          /\ Handled(e).ctx.session_id \in {None, ctx.session_id, minted + 1}
          /\ (~IsStale(ctx, e)
                /\ \/ (e.type = "U_START" /\ ctx.state \in {"IDLE", "ERROR"})
                   \/ (e.type = "S_DEFAULT_INPUT_CHANGED" /\ ctx.state = "RECORDING"))
             => Handled(e).ctx.session_id = minted + 1

C5_SecondToken == minted = 2 /\ ctx.session_id = 2 /\ hist.soft

\* C6: in a session minted by a soft restart, once AudioReady and TransportConnected
\* of that session have been handled the state is Recording
C6_SoftRestartPromotes ==
    (hist.soft /\ ctx.session_id = minted /\ ctx.arming.audio_ready
       /\ ctx.arming.transport_ready)
    => ctx.state = "RECORDING"

\* C7: DefaultInputChanged in Recording mints a new token, moves to Arming and emits
\* StopCapture, CloseTransport, InitAudio, ConnectTransport in that order; from then on
\* an event stamped with the replaced token changes nothing and has no effects
C7_SoftRestart ==
    \A e \in Events(minted) :
       /\ (ctx.state = "RECORDING" /\ e.type = "S_DEFAULT_INPUT_CHANGED" /\ ~IsStale(ctx, e))
          => /\ Handled(e).ctx.session_id = minted + 1
             /\ Handled(e).ctx.state = "ARMING"
             /\ \A t \in {"STOP_CAPTURE", "CLOSE_TRANSPORT", "INIT_AUDIO", "CONNECT_TRANSPORT"} :
                   CountType(Handled(e).effects, t) = 1
             /\ Pos(Handled(e).effects, "STOP_CAPTURE") < Pos(Handled(e).effects, "CLOSE_TRANSPORT")
             /\ Pos(Handled(e).effects, "CLOSE_TRANSPORT") < Pos(Handled(e).effects, "INIT_AUDIO")
             /\ Pos(Handled(e).effects, "INIT_AUDIO") < Pos(Handled(e).effects, "CONNECT_TRANSPORT")
       /\ e.session_id \in hist.superseded => Handled(e) = Out(ctx, << >>)

\* C8: UserStop handled in Arming for the live session moves to Idle, clears the
\* session, emits ReleaseResources and no CommitText; a readiness event is posted only
\* by a bring-up job, with that job's token; a readiness event stamped with a token
\* given up this way changes nothing and has no effects, in Idle and in a later session
C8_FastRelease ==
    /\ (hist.ev.type = "U_STOP" /\ hist.pre.state = "ARMING" /\ ~IsStale(hist.pre, hist.ev))
       => /\ ctx.state = "IDLE"
          /\ ctx.session_id = None
          /\ CountType(hist.eff, "RELEASE_RESOURCES") = 1
          /\ ~HasType(hist.eff, "COMMIT_TEXT")
          /\ hist.pre.session_id \in hist.abandoned
    /\ \A i \in DOMAIN queue :
          queue[i].type \in ReadinessTypes => queue[i].session_id \in 1..minted
    /\ \A j \in rt.jobs : j.session_id \in 1..minted
    /\ (hist.ev.type \in ReadinessTypes /\ hist.ev.session_id \in hist.abandoned)
       => (ctx = hist.pre /\ hist.eff = << >>)

C8_AbandonedReadinessInLaterSession ==
    /\ hist.ev.type \in ReadinessTypes
    /\ hist.ev.session_id \in hist.abandoned
    /\ hist.pre.state = "ARMING"
    /\ hist.pre.session_id # hist.ev.session_id

FlushPending ==
    \/ rt.flush_timer
    \/ \E i \in DOMAIN queue :
          /\ queue[i].type \in {"S_FLUSH_TIMEOUT", "S_QUEUE_FLUSHED"}
          /\ queue[i].session_id = ctx.session_id

\* C10: every step into Stopping emits ArmTimer(flush_timeout), so in Stopping the
\* timer or its event is always pending and Stopping leads to Idle; FlushTimeout
\* handled in Stopping for the live session emits CommitText(committed_text +
\* current_text) once, moves to Idle and clears the session
C10_StoppingEnds ==
    /\ [](\A e \in Events(minted) :
            (ctx.state # "STOPPING" /\ Handled(e).ctx.state = "STOPPING")
            => /\ ctx.state = "RECORDING"
               /\ CountType(Handled(e).effects, "ARM_FLUSH_TIMEOUT") = 1
               /\ ~HasType(Handled(e).effects, "CANCEL_FLUSH_TIMEOUT"))
    /\ [](ctx.state = "STOPPING" => FlushPending)
    /\ []((hist.ev.type = "S_FLUSH_TIMEOUT" /\ hist.pre.state = "STOPPING"
             /\ ~IsStale(hist.pre, hist.ev))
          => /\ ctx.state = "IDLE"
             /\ ctx.session_id = None
             /\ CountType(hist.eff, "COMMIT_TEXT") = 1
             /\ hist.eff[Pos(hist.eff, "COMMIT_TEXT")].text
                   = hist.pre.committed_text \o hist.pre.current_text)
    /\ (ctx.state = "STOPPING") ~> (ctx.state = "IDLE")

C10_FlushTimeoutCommitsPartial ==
    /\ hist.ev.type = "S_FLUSH_TIMEOUT"
    /\ hist.pre.state = "STOPPING"
    /\ hist.pre.current_text # << >>
    /\ ctx.state = "IDLE"
    /\ HasType(hist.eff, "COMMIT_TEXT")

\* C11: TransportError handled in Recording for the live session moves to Stopping,
\* keeps the session and its text, emits ShowError once and ArmTimer(flush_timeout) once
\* with 0.5 s, and leaves the flush timer armed; every step out of Stopping goes to Idle
\* with one CommitText carrying committed_text + current_text; and Stopping entered this
\* way leads to Idle with that CommitText emitted
C11_TransportFailure ==
    /\ [](\A e \in Events(minted) :
            (ctx.state = "RECORDING" /\ e.type = "E_TRANSPORT_ERROR" /\ ~IsStale(ctx, e))
            => /\ Handled(e).ctx = [ctx EXCEPT !.state = "STOPPING"]
               /\ CountType(Handled(e).effects, "SHOW_ERROR") = 1
               /\ CountType(Handled(e).effects, "ARM_FLUSH_TIMEOUT") = 1
               /\ Handled(e).effects[Pos(Handled(e).effects, "ARM_FLUSH_TIMEOUT")].ms = 500
               /\ ~HasType(Handled(e).effects, "COMMIT_TEXT"))
    /\ []((hist.ev.type = "E_TRANSPORT_ERROR" /\ hist.pre.state = "RECORDING"
             /\ ~IsStale(hist.pre, hist.ev))
          => (ctx.state = "STOPPING" /\ rt.flush_timer /\ hist.ncommit = 0))
    /\ [](\A e \in Events(minted) :
            (ctx.state = "STOPPING" /\ Handled(e).ctx.state # "STOPPING")
            => /\ Handled(e).ctx.state = "IDLE"
               /\ CountType(Handled(e).effects, "COMMIT_TEXT") = 1
               /\ Handled(e).effects[Pos(Handled(e).effects, "COMMIT_TEXT")].text
                     = ctx.committed_text \o ctx.current_text)
    /\ (ctx.state = "STOPPING" /\ hist.ev.type = "E_TRANSPORT_ERROR")
          ~> (ctx.state = "IDLE" /\ hist.ncommit = 1)

C11_TransportErrorInRecording ==
    /\ hist.ev.type = "E_TRANSPORT_ERROR"
    /\ hist.pre.state = "RECORDING"
    /\ hist.pre.current_text # << >>
    /\ ctx.state = "STOPPING"
    /\ rt.flush_timer
    /\ HasType(hist.eff, "SHOW_ERROR")

\* C12: in scenario S6 the silence check posts UserStop only in Recording, only when
\* the silence has lasted the whole window, and stamped with the session the check was
\* armed for, which is the live one; that UserStop takes Recording to Stopping; a step
\* of the silence probe changes nothing but the audio queue and last_voice_ts, so no
\* event is posted and the context is unchanged; and when the microphone hears only
\* silence, Recording leads to Idle with CommitText emitted
C12_SilenceAutoStop ==
    /\ [](\A i \in DOMAIN queue :
            queue[i].type = "U_STOP"
            => (queue[i].session_id = minted /\ ctx.session_id = minted /\ minted # None))
    /\ [](ctx.state = "RECORDING" => rt.last_voice_age <= SILENCE_TIMEOUT_S)
    /\ [][(Len(queue') > Len(queue) /\ queue'[Len(queue')].type = "U_STOP")
            => /\ ctx.state = "RECORDING"
               /\ rt'.last_voice_age >= SILENCE_TIMEOUT_S
               /\ queue'[Len(queue')].session_id = rt.silence_check_session]_vars
    /\ []((hist.ev.type = "U_STOP" /\ hist.pre.state = "RECORDING")
          => (ctx.state = "STOPPING" /\ ctx.session_id = hist.pre.session_id))
    /\ [][(Len(rt'.audio_queue.q) > Len(rt.audio_queue.q))
            => /\ ctx' = ctx
               /\ queue' = queue
               /\ [rt' EXCEPT !.audio_queue = rt.audio_queue,
                              !.last_voice_age = rt.last_voice_age] = rt]_vars
    /\ (ctx.state = "RECORDING" /\ s1pc.sentence = "silence")
          ~> (ctx.state = "IDLE" /\ hist.ncommit = 1)

C12_SilenceStopCommitted ==
    /\ s1pc.sentence = "silence"
    /\ rt.last_voice_age >= SILENCE_TIMEOUT_S
    /\ hist.pre.state = "STOPPING"
    /\ ctx.state = "IDLE"
    /\ HasType(hist.eff, "COMMIT_TEXT")
    /\ hist.ncommit = 1

\* C13: the step that takes Stopping to Idle calls the output sink's commit callback
\* exactly once, with committed_text + current_text, also when that text is empty
C13_CommitCallbackOnce ==
    (hist.ev.type # "none" /\ hist.pre.state = "STOPPING" /\ ctx.state = "IDLE")
    => hist.sink = << hist.pre.committed_text \o hist.pre.current_text >>

\* C14: after any sequence of put, get_batch, flush and clear the queue holds at most
\* 20 frames; put is accepted at every fill level; on a full queue it removes exactly
\* the oldest frame, appends the new one, keeps the size at 20 and adds one to the drop
\* counter; on a queue that is not full it appends and leaves the drop counter alone
C14_BoundedQueue ==
    /\ max_frames = 20
    /\ Len(rt.audio_queue.q) <= 20
    /\ \A s \in 1..MaxSessions, data \in PcmBlocks :
          LET a == rt.audio_queue
              b == put(a, data, s)
          IN /\ Len(a.q) = 20
                => /\ b.q = Append(Tail(a.q), AudioFrame(s, data))
                   /\ Len(b.q) = 20
                   /\ b.total_dropped = a.total_dropped + 1
             /\ Len(a.q) < 20
                => /\ b.q = Append(a.q, AudioFrame(s, data))
                   /\ b.total_dropped = a.total_dropped

C14_PutOnFullQueue ==
    /\ Len(rt.audio_queue.q) = 20
    /\ rt.audio_queue.total_dropped = 2
    /\ rt.audio_queue.q[1].session_id = 1
    /\ rt.audio_queue.q[20].session_id = 2

\* C15: the readiness event that completes the three flags of the live session in Arming
\* promotes it to Recording and cancels the arming timer, which stays cancelled in
\* Recording and Stopping, and an ArmingTimeout handled outside Arming, or with another
\* session's token, changes nothing; ArmingTimeout handled in Arming for the live
\* session ends it in Idle with one ReleaseResources and one ShowError and no
\* StartCapture, and a readiness event of a session ended this way changes nothing
C15_ArmingDeadline ==
    /\ (hist.ev.type \in ReadinessTypes /\ hist.pre.state = "ARMING"
          /\ ~IsStale(hist.pre, hist.ev) /\ AllReady(ctx.arming))
       => /\ ctx.state = "RECORDING"
          /\ HasType(hist.eff, "CANCEL_ARMING_TIMEOUT")
          /\ ~rt.arming_timeout_timer
    /\ ctx.state \in {"RECORDING", "STOPPING"} => ~rt.arming_timeout_timer
    /\ \A s \in 0..minted :
          (ctx.state # "ARMING" \/ s \notin {None, ctx.session_id})
          => Handled(Event("E_ARMING_TIMEOUT", s, NoDetail)) = Out(ctx, << >>)
    /\ (hist.ev.type = "E_ARMING_TIMEOUT" /\ hist.pre.state # "ARMING")
       => (ctx = hist.pre /\ hist.eff = << >>)
    /\ (hist.ev.type = "E_ARMING_TIMEOUT" /\ hist.pre.state = "ARMING"
          /\ ~IsStale(hist.pre, hist.ev))
       => /\ ctx.state = "IDLE"
          /\ ctx.session_id = None
          /\ CountType(hist.eff, "RELEASE_RESOURCES") = 1
          /\ CountType(hist.eff, "SHOW_ERROR") = 1
          /\ ~HasType(hist.eff, "START_CAPTURE")
          /\ hist.pre.session_id \in hist.timedout
          /\ rt.recorder = None /\ rt.asr_client = None
    /\ \A s \in hist.timedout, t \in ReadinessTypes :
          Handled(Event(t, s, NoDetail)) = Out(ctx, << >>)
    /\ (hist.ev.type \in ReadinessTypes /\ hist.ev.session_id \in hist.timedout)
       => (ctx = hist.pre /\ hist.eff = << >>)

C15_LateReadinessAfterTimeout ==
    /\ hist.ev.type \in ReadinessTypes
    /\ hist.ev.session_id \in hist.timedout
    /\ hist.pre.state = "RECORDING"
    /\ ~rt.arming_timeout_timer

\* C16: the idle sweep fires only while the state is Idle, and its firing leaves the
\* context unchanged
C16_SweepOnlyInIdle ==
    hist.ev.type = "idle_sweep" => (hist.pre.state = "IDLE" /\ ctx = hist.pre)

\* C17: UserStop handled in Idle or in Stopping changes nothing and emits no effects;
\* UserStop handled in Error resets to Idle (ReleaseResources, token and message
\* cleared, UI hidden); UserStart handled in Arming, Recording or Stopping changes
\* nothing and emits no effects; and whatever the state, once either signal has been
\* handled, handling it again (the same event, or after one that was not dropped as
\* stale the signal under any stamp) changes nothing and emits no effects
C17_RepeatedUserSignals ==
    \A e \in Events(minted) :
       /\ (e.type = "U_STOP" /\ ctx.state \in {"IDLE", "STOPPING"})
             => Handled(e) = Out(ctx, << >>)
       /\ (e.type = "U_STOP" /\ ctx.state = "ERROR" /\ ~IsStale(ctx, e))
             => /\ Handled(e).ctx = [ctx EXCEPT !.state = "IDLE", !.session_id = None,
                                                !.error_message = NoMsg]
                /\ Handled(e).effects
                      = << Eff("RELEASE_RESOURCES"), EffMsg("UPDATE_UI", NoMsg) >>
       /\ (e.type = "U_START" /\ ctx.state \in {"ARMING", "RECORDING", "STOPPING"})
             => Handled(e) = Out(ctx, << >>)
       /\ e.type \in {"U_START", "U_STOP"}
             => \A s \in 0..(minted + 1) :
                   (s = e.session_id \/ ~IsStale(ctx, e))
                      => handle(Handled(e).ctx, Event(e.type, s, e.detail), minted + 2)
                            = Out(Handled(e).ctx, << >>)

C17_UserStopInError ==
    /\ ctx.state = "ERROR"
    /\ ctx.error_message # NoMsg
    /\ Handled(Event("U_STOP", ctx.session_id, NoDetail)).ctx.state = "IDLE"

\* C18: StopCapture executed twice in a row leaves the recorder, the sender, the silence
\* timer and the audio queue as one execution leaves them; CloseTransport executed twice
\* in a row closes the connection once, and the client and sender slots are empty after
\* the first execution and after the second
C18_IdempotentTeardown ==
    /\ stop_capture(stop_capture(rt)) = stop_capture(rt)
    /\ stop_capture(rt).audio_sender = rt.audio_sender
    /\ stop_capture(rt).audio_queue = rt.audio_queue
    /\ stop_capture(rt).recorder = rt.recorder
    /\ ~stop_capture(rt).capturing /\ ~stop_capture(rt).silence_check_timer
    /\ close_transport(close_transport(rt)) = close_transport(rt)
    /\ close_transport(rt).asr_client = None /\ close_transport(rt).audio_sender = None
    /\ close_calls(rt) + close_calls(close_transport(rt)) <= 1
    /\ close_calls(rt) + close_calls(close_transport(rt)) = 1 <=> rt.asr_client # None
    /\ close_transport(rt).open = rt.open \ {rt.asr_client}

C18_TeardownWhileRecording ==
    /\ ctx.state = "RECORDING"
    /\ rt.capturing /\ rt.silence_check_timer
    /\ rt.audio_sender # None /\ rt.asr_client # None /\ rt.asr_client \in rt.open
    /\ stop_capture(rt) # rt
    /\ close_transport(rt) # rt
    /\ close_transport(close_transport(rt)).open = rt.open \ {rt.asr_client}

\* the rows of the transition table, as (state, event type) pairs
TransitionTable ==
    { <<"IDLE", "U_START">>, <<"IDLE", "E_MIC_PERMISSION_DENIED">>,
      <<"IDLE", "E_ACCESSIBILITY_DENIED">>,
      <<"ARMING", "S_MIC_PERMISSION_OK">>, <<"ARMING", "S_AUDIO_READY">>,
      <<"ARMING", "S_TRANSPORT_CONNECTED">>, <<"ARMING", "U_STOP">>,
      <<"ARMING", "E_ARMING_TIMEOUT">>, <<"ARMING", "E_MIC_PERMISSION_DENIED">>,
      <<"ARMING", "E_AUDIO_INIT_FAILED">>, <<"ARMING", "E_TRANSPORT_ERROR">>,
      <<"ARMING", "E_NETWORK_UNAVAILABLE">>,
      <<"RECORDING", "U_STOP">>, <<"RECORDING", "S_DEFAULT_INPUT_CHANGED">>,
      <<"RECORDING", "S_SYSTEM_WILL_SLEEP">>, <<"RECORDING", "E_TRANSPORT_ERROR">>,
      <<"RECORDING", "E_AUDIO_DEVICE_GONE">>,
      <<"STOPPING", "S_QUEUE_FLUSHED">>, <<"STOPPING", "S_FLUSH_TIMEOUT">>,
      <<"STOPPING", "U_STOP">>,
      <<"ERROR", "U_START">>, <<"ERROR", "S_AUTO_RECOVER">>,
      <<"ERROR", "S_SYSTEM_DID_WAKE">>, <<"ERROR", "U_STOP">> }

\* C19: for every (state, event) pair that is not a row of the transition table, handle
\* returns the whole context unchanged and no effects
C19_OffTableNoOp ==
    \A e \in Events(minted) :
       << ctx.state, e.type >> \notin TransitionTable => Handled(e) = Out(ctx, << >>)

C19_SleepWhileArming ==
    /\ ctx.state = "ARMING"
    /\ ctx.arming.audio_ready
    /\ << ctx.state, "S_SYSTEM_WILL_SLEEP" >> \notin TransitionTable
    /\ Handled(Event("S_SYSTEM_WILL_SLEEP", ctx.session_id, NoDetail)) = Out(ctx, << >>)
    /\ Handled(Event("U_STOP", ctx.session_id, NoDetail)) # Out(ctx, << >>)

\* C20: handle is deterministic: two calls with equal (context, event) return equal
\* contexts and equal effect lists, whatever uuid4() returns in each call, including
\* for UserStart and DefaultInputChanged where a token is assigned
C20_Deterministic ==
    \A e \in Events(minted) :
       \A u1, u2 \in {minted + 1, minted + 2} :
          handle(ctx, e, u1) = handle(ctx, e, u2)

\* C21: a recorder or connection built by a bring-up job is in its slot only while the
\* session the job was spawned for is live: no connection created for an ended session
\* is installed or left open, no recorder of an ended session captures, and the sender
\* of a session never sends through a connection created for another session
C21_StoreChecksSession ==
    /\ rt.asr_client # None => rt.asr_client = ctx.session_id
    /\ rt.open \subseteq {ctx.session_id} \ {None}
    /\ (rt.recorder # None /\ rt.capturing) => rt.recorder = ctx.session_id
    /\ (rt.audio_sender # None /\ rt.asr_client # None) => rt.asr_client = rt.audio_sender

\* the step just taken handled an event posted by a callback of the ended session s1pc.pc
LateCallbackHandled ==
    /\ s1pc.sentence = "handled"
    /\ hist.ev.type # "none"
    /\ hist.pre.session_id # None
    /\ hist.pre.session_id # s1pc.pc

\* C22: an error reported by the recorder or the connection of a session that has ended
\* or been superseded causes no state change and no effects in the later session
C22_AbandonedAdapterSilenced ==
    (LateCallbackHandled /\ s1pc.order = << >>)
       => (ctx = hist.pre /\ hist.eff = << >>)

\* C23: a timer armed during a session whose firing slipped past its cancellation and
\* posts only after a later session is live causes no state change and no effects there
C23_LateTimerFiltered ==
    (LateCallbackHandled /\ s1pc.order # << >>)
       => (ctx = hist.pre /\ hist.eff = << >>)

\* C24: a UserStop posted through user_stop() is never discarded by the stale-event
\* filter: it is handled against the session that is live when it is dequeued
C24_UserStopNeverStale ==
    (s1pc.sentence = "handled" /\ hist.ev.type = "U_STOP")
       => ~IsStale(hist.pre, hist.ev)

\* C25: every stay in Arming ends, whether Arming was entered from Idle, from Error or
\* from Recording by a soft restart
C25_ArmingBounded == (ctx.state = "ARMING") ~> (ctx.state # "ARMING")

\* C26: a definite result appends its text to committed_text and clears current_text, a
\* partial result replaces current_text and leaves committed_text alone, and a result of
\* a session that is not the live one never changes the live session's texts
C26_TranscriptAccumulation ==
    [][(s1pc.sentence = "checked" /\ s1pc'.sentence = "applied")
          => LET r == s1pc.order[1]
             IN IF ctx.session_id \notin {None, s1pc.pc}
                THEN /\ ctx'.committed_text = ctx.committed_text
                     /\ ctx'.current_text = ctx.current_text
                ELSE IF r.is_definite
                THEN /\ ctx'.committed_text = ctx.committed_text \o r.text
                     /\ ctx'.current_text = << >>
                ELSE /\ ctx'.committed_text = ctx.committed_text
                     /\ ctx'.current_text = r.text]_vars

\* the effects of the Stopping -> Idle transition
FlushDoneEffects(c) ==
    << Eff("CANCEL_FLUSH_TIMEOUT"), Eff("CLOSE_TRANSPORT"), Eff("RELEASE_RESOURCES"),
       Effect("COMMIT_TEXT", NoMsg, 0, c.committed_text \o c.current_text),
       EffMsg("UPDATE_UI", NoMsg) >>

\* C27: in Stopping, (a) once the sender has emptied the queue and the last-frame
\* sentinel has gone out on the open connection, QueueFlushed is posted; (b) the flush
\* timer posts FlushTimeout and (c) a definite result posts QueueFlushed; QueueFlushed
\* and FlushTimeout take Stopping to Idle with the same effects
C27_FlushCompletion ==
    /\ (/\ hist.ev.type # "none"
        /\ ctx.state = "STOPPING"
        /\ HasType(hist.eff, "FLUSH_QUEUE")
        /\ rt.audio_queue.q = << >>
        /\ rt.asr_client # None /\ rt.asr_client \in rt.open)
       => \E i \in DOMAIN queue : queue[i].type = "S_QUEUE_FLUSHED"
    /\ (hist.pre.state = "STOPPING" /\ hist.ev.type \in {"S_QUEUE_FLUSHED", "S_FLUSH_TIMEOUT"}
           /\ ~IsStale(hist.pre, hist.ev))
       => /\ ctx = ToIdle(hist.pre)
          /\ hist.eff = FlushDoneEffects(hist.pre)

\* C28: when a send fails during Recording the sender posts TransportError once for the
\* session and stops: no second TransportError of the session is posted
C28_OneTransportError ==
    \A s \in 1..MaxSessions : TransportErrors(queue, s) <= 1

\* C29: get_batch for a session returns at most max frames, all stamped with that
\* session, in the order they were put: the first frames of the session in the queue;
\* what it leaves is the rest of the queue behind the frames it met, so frames of another
\* session that it met are gone; flush for a session returns all frames of the session
\* in order and leaves the queue empty.  A sender of session B therefore never sends a
\* frame of an older session
C29_BatchOfOneSession ==
    \A s \in 1..MaxSessions :
       LET OfSession(f) == f.session_id = s
           q == rt.audio_queue.q
           mine == SelectSeq(q, OfSession)
           f == flush(rt.audio_queue, s)
       IN /\ \A max_items \in {1, 10} :
                LET r == get_batch(rt.audio_queue, max_items, s)
                    n == IF Len(mine) < max_items THEN Len(mine) ELSE max_items
                IN /\ Len(r.items) <= max_items
                   /\ \A i \in DOMAIN r.items : r.items[i].session_id = s
                   /\ r.items = SubSeq(mine, 1, n)
                   /\ \E k \in 0..Len(q) :
                         /\ r.queue.q = SubSeq(q, k + 1, Len(q))
                         /\ r.items = SelectSeq(SubSeq(q, 1, k), OfSession)
                   /\ r.queue.total_dropped = rt.audio_queue.total_dropped
          /\ f.items = mine
          /\ f.queue.q = << >>

C29_OlderFramesDiscarded ==
    LET q == rt.audio_queue.q
        r == get_batch(rt.audio_queue, 1, 2)
    IN /\ Len(q) >= 4
       /\ q[1].session_id = 1 /\ q[2].session_id = 1
       /\ q[3].session_id = 2 /\ q[4].session_id = 2
       /\ r.items = << q[3] >>
       /\ r.queue.q = SubSeq(q, 4, Len(q))

\* the place of an effect type in the teardown order, 0 for the other types
TeardownRank(t) ==
    CASE t = "STOP_CAPTURE" -> 1
      [] t = "CLOSE_TRANSPORT" -> 2
      [] t = "RELEASE_RESOURCES" -> 3
      [] OTHER -> 0

CancelTypes == {"CANCEL_FLUSH_TIMEOUT", "CANCEL_ARMING_TIMEOUT", "CANCEL_ERROR_RECOVER"}

ArmTypes == {"ARM_FLUSH_TIMEOUT", "ARM_ARMING_TIMEOUT", "ARM_ERROR_RECOVER"}

WellOrdered(effs) ==
    \A i, j \in DOMAIN effs :
       /\ (effs[i].type \in CancelTypes /\ effs[j].type \in ArmTypes) => i < j
       /\ (TeardownRank(effs[i].type) > 0
             /\ TeardownRank(effs[i].type) < TeardownRank(effs[j].type)) => i < j

\* C30: in every effect list handle returns, every Cancel* effect precedes every Arm*
\* effect and StopCapture precedes CloseTransport precedes ReleaseResources; and when the
\* event loop has taken a step, before anything else is dequeued, every effect of the step
\* has been carried out: armed timers run, cancelled ones do not, released and closed
\* slots are empty, the sender and the bring-up jobs of the step are started
C30_EffectOrder ==
    /\ \A e \in Events(minted) : WellOrdered(Handled(e).effects)
    /\ WellOrdered(hist.eff)
    /\ HasType(hist.eff, "ARM_FLUSH_TIMEOUT") => rt.flush_timer
    /\ HasType(hist.eff, "ARM_ARMING_TIMEOUT") => rt.arming_timeout_timer
    /\ HasType(hist.eff, "ARM_ERROR_RECOVER") => rt.error_recover_timer
    /\ (HasType(hist.eff, "CANCEL_FLUSH_TIMEOUT") /\ ~HasType(hist.eff, "ARM_FLUSH_TIMEOUT"))
          => ~rt.flush_timer
    /\ (HasType(hist.eff, "CANCEL_ARMING_TIMEOUT") /\ ~HasType(hist.eff, "ARM_ARMING_TIMEOUT"))
          => ~rt.arming_timeout_timer
    /\ (HasType(hist.eff, "CANCEL_ERROR_RECOVER") /\ ~HasType(hist.eff, "ARM_ERROR_RECOVER"))
          => ~rt.error_recover_timer
    /\ HasType(hist.eff, "STOP_CAPTURE") => (~rt.capturing /\ ~rt.silence_check_timer)
    /\ HasType(hist.eff, "CLOSE_TRANSPORT") => (rt.asr_client = None /\ rt.audio_sender = None)
    /\ HasType(hist.eff, "RELEASE_RESOURCES")
          => /\ rt.recorder = None /\ rt.asr_client = None /\ rt.audio_sender = None
             /\ rt.audio_queue.q = << >>
    /\ HasType(hist.eff, "FLUSH_QUEUE") => rt.audio_sender = None
    /\ HasType(hist.eff, "START_CAPTURE")
          => (rt.audio_sender = ctx.session_id /\ rt.silence_check_timer)
    /\ HasType(hist.eff, "INIT_AUDIO") => Job("init", ctx.session_id) \in rt.jobs
    /\ HasType(hist.eff, "CONNECT_TRANSPORT") => Job("connect", ctx.session_id) \in rt.jobs
    /\ HasType(hist.eff, "CHECK_PERMISSIONS") => Job("check", ctx.session_id) \in rt.jobs

C30_CancelThenArm ==
    /\ hist.ev.type = "U_START"
    /\ hist.pre.state = "ERROR"
    /\ Pos(hist.eff, "CANCEL_ERROR_RECOVER") < Pos(hist.eff, "RELEASE_RESOURCES")
    /\ Pos(hist.eff, "RELEASE_RESOURCES") < Pos(hist.eff, "ARM_ARMING_TIMEOUT")
    /\ rt.arming_timeout_timer /\ ~rt.error_recover_timer
    /\ rt.recorder = None

\* C31: an event of the system listener (SystemWillSleep, SystemDidWake,
\* DefaultInputChanged) is handled as if it carried no session token: whenever the event
\* loop has handled one, the context and the effects are those handle gives for the same
\* event without a token
C31_ProbeAlwaysObserved ==
    (s1pc.sentence = "handled" /\ hist.ev.type = s1pc.order[1])
       => LET bare == [hist.ev EXCEPT !.session_id = None]
              u == IF ctx.session_id = minted /\ hist.pre.session_id # minted
                   THEN minted ELSE minted + 1
          IN handle(hist.pre, bare, u) = Out(ctx, hist.eff)

\* the effect types of a list, in order
Types(effs) == [i \in DOMAIN effs |-> effs[i].type]

\* what the last step of the event loop did, for the steps into and out of Error
ErrorSteps ==
    /\ (hist.pre.state = "ARMING" /\ ~IsStale(hist.pre, hist.ev)
          /\ hist.ev.type \in {"E_MIC_PERMISSION_DENIED", "E_AUDIO_INIT_FAILED"})
          => /\ ctx.state = "ERROR"
             /\ Types(hist.eff) = << "CANCEL_ARMING_TIMEOUT", "RELEASE_RESOURCES",
                                     "SHOW_ERROR", "ARM_ERROR_RECOVER" >>
             /\ hist.eff[4].ms = 3000
             /\ rt.error_recover_timer /\ ~rt.arming_timeout_timer
    /\ (hist.pre.state = "ERROR" /\ ~IsStale(hist.pre, hist.ev)
          /\ hist.ev.type = "S_AUTO_RECOVER")
          => (ctx.state = "IDLE" /\ ctx.session_id = None)
    /\ (hist.pre.state = "ERROR" /\ ~IsStale(hist.pre, hist.ev) /\ hist.ev.type = "U_START")
          => /\ ctx.state = "ARMING"
             /\ ctx.session_id = minted /\ ctx.session_id # hist.pre.session_id
             /\ HasType(hist.eff, "CANCEL_ERROR_RECOVER")
             /\ ~rt.error_recover_timer

\* C32: MicPermissionDenied or AudioInitFailed handled in Arming moves to Error with
\* CancelTimer(arming_timeout), ReleaseResources, ShowError, ArmTimer(error_recover, 3 s)
\* in that order; AutoRecover handled in Error gives Idle with the session cleared and
\* UserStart handled in Error cancels error_recover and starts a new session in Arming;
\* every stay in Error ends in Idle with the session cleared unless a UserStart is
\* handled first
C32_ErrorAndRecovery ==
    /\ []ErrorSteps
    /\ (ctx.state = "ERROR")
          ~> \/ ctx.state = "IDLE" /\ ctx.session_id = None
             \/ ctx.state = "ARMING" /\ hist.ev.type = "U_START" /\ hist.pre.state = "ERROR"

C32_AutoRecovered ==
    /\ hist.ev.type = "S_AUTO_RECOVER"
    /\ hist.pre.state = "ERROR"
    /\ hist.pre.session_id = 1
    /\ hist.errs = 1
    /\ ctx.state = "IDLE" /\ ctx.session_id = None

\* C33: when the permission check of the session being armed reports
\* AccessibilityDenied, the step that handles the event surfaces a hint through
\* ShowError and routes the session to Idle
C33_AccessibilityDenialTerminal ==
    (hist.ev.type = "E_ACCESSIBILITY_DENIED" /\ hist.pre.state = "ARMING"
        /\ hist.ev.session_id = hist.pre.session_id)
       => (HasType(hist.eff, "SHOW_ERROR") /\ ctx.state = "IDLE")

\* C34: AudioInitFailed handled in Arming brings the coordinator into Error with the
\* error_recover timer running, and AutoRecover handled in Error returns it to Idle;
\* AudioDeviceGone handled in Recording shows the error and goes to Stopping with the
\* flush timer running and arms no error_recover timer, and Stopping ends in Idle; Error
\* is entered from Arming only
C34_DeviceFaultRoutes ==
    /\ (hist.ev.type = "E_AUDIO_INIT_FAILED" /\ hist.pre.state = "ARMING"
          /\ ~IsStale(hist.pre, hist.ev))
          => (ctx.state = "ERROR" /\ rt.error_recover_timer)
    /\ (hist.ev.type = "E_AUDIO_DEVICE_GONE" /\ hist.pre.state = "RECORDING"
          /\ ~IsStale(hist.pre, hist.ev))
          => /\ ctx.state = "STOPPING"
             /\ HasType(hist.eff, "SHOW_ERROR")
             /\ rt.flush_timer /\ ~HasType(hist.eff, "ARM_ERROR_RECOVER")
    /\ (hist.ev.type = "S_AUTO_RECOVER" /\ hist.pre.state = "ERROR"
          /\ ~IsStale(hist.pre, hist.ev))
          => ctx.state = "IDLE"
    /\ (hist.ev.type \in {"S_QUEUE_FLUSHED", "S_FLUSH_TIMEOUT"}
          /\ hist.pre.state = "STOPPING" /\ ~IsStale(hist.pre, hist.ev))
          => ctx.state = "IDLE"
    /\ (hist.ev # NoEvent /\ ctx.state = "ERROR") => hist.pre.state \in {"ARMING", "ERROR"}

C34_DeviceGoneWhileRecording ==
    /\ hist.ev.type = "E_AUDIO_DEVICE_GONE"
    /\ hist.pre.state = "RECORDING"
    /\ hist.ev.session_id = hist.pre.session_id
    /\ ctx.state = "STOPPING"

\* both device faults bring the coordinator into Error
C34_BothFaultsToError ==
    (hist.ev.type \in {"E_AUDIO_INIT_FAILED", "E_AUDIO_DEVICE_GONE"}
        /\ hist.pre.state = (IF hist.ev.type = "E_AUDIO_INIT_FAILED" THEN "ARMING"
                             ELSE "RECORDING")
        /\ ~IsStale(hist.pre, hist.ev))
       => ctx.state = "ERROR"

\* the events that end Recording in Stopping
RecordingExits ==
    {"U_STOP", "S_SYSTEM_WILL_SLEEP", "E_TRANSPORT_ERROR", "E_AUDIO_DEVICE_GONE"}

\* C35: UserStop, SystemWillSleep, TransportError and AudioDeviceGone handled in
\* Recording each move to Stopping, emit FlushQueue and then ArmTimer(flush_timeout), of
\* 1 s for UserStop and 0.5 s for the other three; StopCapture is emitted, first, for all
\* but AudioDeviceGone, ShowError for TransportError and AudioDeviceGone only, and the
\* session token and the accumulated text are left unchanged
C35_RecordingExits ==
    ctx.state = "RECORDING"
       => \A e \in Events(minted) :
             (e.type \in RecordingExits /\ ~IsStale(ctx, e))
                => LET out == Handled(e)
                       effs == out.effects
                   IN /\ out.ctx = [ctx EXCEPT !.state = "STOPPING"]
                      /\ CountType(effs, "FLUSH_QUEUE") = 1
                      /\ CountType(effs, "ARM_FLUSH_TIMEOUT") = 1
                      /\ Pos(effs, "FLUSH_QUEUE") < Pos(effs, "ARM_FLUSH_TIMEOUT")
                      /\ effs[Pos(effs, "ARM_FLUSH_TIMEOUT")].ms
                            = (IF e.type = "U_STOP" THEN 1000 ELSE 500)
                      /\ HasType(effs, "STOP_CAPTURE") <=> e.type # "E_AUDIO_DEVICE_GONE"
                      /\ HasType(effs, "STOP_CAPTURE") => Pos(effs, "STOP_CAPTURE") = 1
                      /\ HasType(effs, "SHOW_ERROR")
                            <=> e.type \in {"E_TRANSPORT_ERROR", "E_AUDIO_DEVICE_GONE"}

C35_RecordingWithText ==
    /\ ctx.state = "RECORDING"
    /\ ctx.session_id = 2
    /\ ctx.committed_text # << >>
    /\ Handled(Event("E_AUDIO_DEVICE_GONE", 2, NoDetail)).ctx.state = "STOPPING"
    /\ Handled(Event("U_STOP", None, NoDetail)).ctx.committed_text = ctx.committed_text

\* the timers of one name that are waiting to fire
Pending(n) == { t \in s1pc.timers : t.name = n }

\* C36: at any time at most one timer is pending under each of the names arming_timeout,
\* flush_timeout, error_recover, silence_check and idle_sweep, and a pending timer is
\* the one its attribute refers to, so that a replaced timer never fires
C36_OnePendingPerName ==
    \A n \in TimerNames :
       /\ Cardinality(Pending(n)) <= 1
       /\ \A t \in Pending(n) : t.ref

\* a frame that is too short or truncated, or whose payload fails to gunzip or to parse
Malformed(f) ==
    \/ f.keep # "all"
    \/ f.type = "response"
          /\ (~f.json \/ f.zipped # (f.compress = COMPRESS_GZIP))

\* C37: a malformed server frame and a well-formed Error frame each post one
\* TransportError with a detail and change nothing of the context; a well-formed
\* response whose document has a result is applied as exactly one result, with the text
\* of the document and is_final taken from the definite flag of the last utterance,
\* false when the flag or the utterances are absent
C37_FrameHandling ==
    [][(s1pc.pc = 5 /\ s1pc'.pc = 6)
          => LET f == s1pc.sentence
             IN IF Malformed(f) \/ f.type = "error"
                THEN /\ ctx' = ctx
                     /\ queue' = Append(queue, Event("E_TRANSPORT_ERROR", ctx.session_id,
                                                     "detail"))
                ELSE f.doc.result
                        => /\ ctx' = on_asr_result(ctx, get_text(f.doc), f.doc.utterances = 2)
                           /\ queue' = queue]_vars

\* C38: the release made by the idle sweep takes nothing away from a live session: when
\* on_idle calls _release_resources while a session is in Arming, Recording or Stopping,
\* the recorder, the connection and the sender of that session and its queued audio stay
C38_SweepSparesLiveSession ==
    [][(s1pc.sentence = "is_idle" /\ s1pc'.sentence = "none"
          /\ ctx.state \in {"ARMING", "RECORDING", "STOPPING"})
          => /\ rt.recorder = ctx.session_id => rt'.recorder = rt.recorder
             /\ rt.asr_client = ctx.session_id => rt'.asr_client = rt.asr_client
             /\ rt.audio_sender = ctx.session_id => rt'.audio_sender = rt.audio_sender
             /\ rt'.audio_queue = rt.audio_queue]_vars

\* the audio samples the websocket was given, in the order it was given them
RECURSIVE Sent(_)
Sent(w) == IF w = << >> THEN << >> ELSE Head(w).pcm \o Sent(Tail(w))

\* C39: what the connection of the session is given is in capture order and ends with
\* the sentinel: a block captured earlier is never sent after a block captured later,
\* and no audio is sent after the is_last frame
C39_WireInCaptureOrder ==
    /\ \A i, j \in DOMAIN Sent(s1pc.wire) :
          i < j => Sent(s1pc.wire)[i] < Sent(s1pc.wire)[j]
    /\ \A i, j \in DOMAIN s1pc.wire :
          i < j /\ s1pc.wire[i].is_last => s1pc.wire[j].pcm = << >>

\* the step recorded in hist is a soft restart: DefaultInputChanged handled in Recording
SoftRestarted ==
    /\ hist.ev.type = "S_DEFAULT_INPUT_CHANGED"
    /\ hist.pre.state = "RECORDING"
    /\ ~IsStale(hist.pre, hist.ev)

====
